---- MODULE Spec2Model ----
(***************************************************************************)
(* Sona iOS client: the key cache of SessionManager, the HPKE unwrap of    *)
(* the Grid authorization key, the KMS payload signer and the              *)
(* prepare / sign / submit flow of SendMoneyView.sendMoney.                *)
(*                                                                         *)
(* Swift optionals are sequences of length 0 (nil) or 1 (some value).      *)
(* Keychain and URLSession faults of the operating system are not          *)
(* modelled, except a transport failure of an awaited request.             *)
(***************************************************************************)
EXTENDS Integers, Sequences, FiniteSets, TLC

\* ------------------------------------------------------------------ bounds
MaxStubs == 2         \* kms_payloads entries in one prepare response
MaxQueue == 1         \* a handler starts with fewer blocks than this
                      \* waiting on DispatchQueue.main

\* ------------------------------------------------------------- value sets
Nil == <<>>
Some(x) == <<x>>

\* The keypair generateAndStoreKeyPair draws.  Nothing removes the two HPKE
\* keychain entries, so it draws once in a run.
HpkeKeyIds == {1}
\* Authorization keys: "k1" and "k2" are keys the custody service may wrap
\* for account "A1", "k3" is the key it wraps for account "A2".
ValidScalars == {"k1", "k2", "k3"}
\* "k0" stands for 32 bytes that are not a valid P-256 scalar.
Scalars == {"k1", "k2", "k0"}
Blockhashes == {"h1"}

Is2xx(status) == status >= 200 /\ status < 300

\* ----------------------------------------------------------- UserSession
UserSession(uid, name, email, address, gridUserId) ==
    [uid |-> uid, name |-> name, email |-> email, address |-> address,
     gridUserId |-> gridUserId]

\* session?.field
SessionField(s, f) == IF s = Nil THEN Nil ELSE s[1][f]

\* -------------------------------------------------------- KeychainStorage
EmptyKeychain ==
    [auth_session_json |-> Nil,
     grid_raw_response |-> Nil,
     grid_decrypted_authorization_key |-> Nil,
     grid_privy_access_token |-> Nil,
     hpke_private_raw |-> Nil,
     hpke_public_der |-> Nil]

KeychainSet(kc, key, data) == [kc EXCEPT ![key] = Some(data)]
KeychainGet(kc, key) == kc[key]
KeychainRemove(kc, key) == [kc EXCEPT ![key] = Nil]

\* The mutable state SessionManager and HPKEManager work on, threaded
\* through the operators below: st.kc is the keychain, st.ud the shadow
\* entry of UserDefaults, st.q the blocks queued on DispatchQueue.main.
Store(kc, ud, q) == [kc |-> kc, ud |-> ud, q |-> q]

\* --------------------------------------------------------- SessionManager
persist(st, s) ==
    [st EXCEPT !.kc = KeychainSet(@, "auth_session_json", s),
               !.q = Append(@, Some(s))]

clear(st) ==
    [st EXCEPT
       !.kc = KeychainRemove(
                KeychainRemove(
                  KeychainRemove(
                    KeychainRemove(@, "auth_session_json"),
                    "grid_raw_response"),
                  "grid_decrypted_authorization_key"),
                "grid_privy_access_token"),
       !.ud = Nil,
       !.q = Append(@, Nil)]

\* The keychain entry is always written by persist, so it decodes as a
\* UserSession; the legacy and unknown-format branches need an entry
\* written by an older build.
reload(st) ==
    LET data == KeychainGet(st.kc, "auth_session_json") IN
    IF data = Nil
    THEN [st EXCEPT !.q = Append(@, Nil)]
    ELSE [st EXCEPT !.q = Append(@, data)]

setUID(st, sess, uid) ==
    persist(st, UserSession(Some(uid), SessionField(sess, "name"),
                            SessionField(sess, "email"),
                            SessionField(sess, "address"),
                            SessionField(sess, "gridUserId")))

setNameEmail(st, sess, name, email) ==
    persist(st, UserSession(SessionField(sess, "uid"), Some(name),
                            Some(email), SessionField(sess, "address"),
                            SessionField(sess, "gridUserId")))

setAddress(st, sess, address) ==
    persist(st, UserSession(SessionField(sess, "uid"),
                            SessionField(sess, "name"),
                            SessionField(sess, "email"), address,
                            SessionField(sess, "gridUserId")))

setGridUserId(st, sess, gridUserId) ==
    persist(st, UserSession(SessionField(sess, "uid"),
                            SessionField(sess, "name"),
                            SessionField(sess, "email"),
                            SessionField(sess, "address"), gridUserId))

setGridRawResponse(st, data) ==
    [st EXCEPT !.kc = KeychainSet(@, "grid_raw_response", data)]

setDecryptedAuthorizationKey(st, data) ==
    [st EXCEPT
       !.kc = KeychainSet(@, "grid_decrypted_authorization_key", data),
       !.ud = Some(data)]

getDecryptedAuthorizationKey(st) ==
    KeychainGet(st.kc, "grid_decrypted_authorization_key")

getGridRawResponse(st) == KeychainGet(st.kc, "grid_raw_response")

setPrivyAccessToken(st, token) ==
    [st EXCEPT !.kc = KeychainSet(@, "grid_privy_access_token", token)]

\* ------------------------------------------ Grid verify response (raw JSON)
\* A candidate "04 20" marker found by the scan of the HPKE plaintext: the
\* count of SEQUENCE tags before it, whether 32 bytes follow it, and those
\* 32 bytes.
Candidate(depth, fits, scalar) ==
    [depth |-> depth, fits |-> fits, scalar |-> scalar]

Plaintexts ==
    {<<Candidate(3, TRUE, k)>> : k \in Scalars}
    \cup {<<>>,
          <<Candidate(1, TRUE, "k2"), Candidate(3, TRUE, "k1")>>,
          <<Candidate(3, FALSE, "k1")>>}

\* encrypted_authorization_key: the encapsulated key is valid base64 or
\* not and decodes to a raw X9.63 point, an SPKI DER wrapping one, or
\* neither; the ciphertext is valid base64 or not, was sealed to one HPKE
\* public key (0: a key this device never generated) and is intact or
\* corrupted.
EncBlob(ekB64, encForm, ctB64, sealedTo, intact, plaintext) ==
    [ekB64 |-> ekB64, encForm |-> encForm, ctB64 |-> ctB64,
     sealedTo |-> sealedTo, intact |-> intact, plaintext |-> plaintext]

GoodBlobs ==
    {EncBlob(TRUE, "x963", TRUE, 1, TRUE, p) : p \in Plaintexts}
    \cup {EncBlob(TRUE, "x963", TRUE, id, TRUE, <<Candidate(3, TRUE, "k1")>>) :
            id \in HpkeKeyIds \cup {0}}
    \cup {EncBlob(TRUE, "spki", TRUE, 1, TRUE, <<Candidate(3, TRUE, "k1")>>)}

BadBlobs ==
    {EncBlob(FALSE, "x963", TRUE, 1, TRUE, <<Candidate(3, TRUE, "k1")>>),
     EncBlob(TRUE, "x963", FALSE, 1, TRUE, <<Candidate(3, TRUE, "k1")>>),
     EncBlob(TRUE, "malformed", TRUE, 1, TRUE, <<Candidate(3, TRUE, "k1")>>),
     EncBlob(TRUE, "x963", TRUE, 1, FALSE, <<Candidate(3, TRUE, "k1")>>)}

EncBlobs == GoodBlobs \cup BadBlobs

NoBlob == EncBlob(FALSE, "malformed", FALSE, 1, FALSE, <<>>)

\* encAt: where the encrypted key sits in the JSON.  "nested" is
\* data.authentication[].session.<provider>.session
\* .encrypted_authorization_key, "elsewhere" any other place, "none" absent.
GridRaw(address, gridUserId, encAt, enc, privy) ==
    [address |-> address, gridUserId |-> gridUserId, encAt |-> encAt,
     enc |-> enc, privy |-> privy]

GridRaws ==
    {GridRaw("A1", Some("G1"), "none", NoBlob, Nil)}
    \cup {GridRaw("A1", Some("G1"), "nested", b, Some("tok")) : b \in EncBlobs}
    \cup {GridRaw("A1", Some("G1"), "elsewhere",
                  EncBlob(TRUE, "x963", TRUE, 1, TRUE,
                          <<Candidate(3, TRUE, "k2")>>), Nil)}

firstEncryptedKey(raw) ==
    IF raw.encAt = "nested" THEN Some(raw.enc) ELSE Nil

findEncryptedAuthKey(raw) ==
    IF raw.encAt \in {"nested", "elsewhere"} THEN Some(raw.enc) ELSE Nil

findPrivyAccessToken(raw) == raw.privy

\* ------------------------------------------------------------------ errors
\* What error.localizedDescription shows: the domain and code, and the HTTP
\* status and response body when the thrower put them in the text.
Error(domain, code, status, body) ==
    [domain |-> domain, code |-> code, status |-> status, body |-> body]

URLErrorBadServerResponse == Error("NSURLErrorDomain", -1011, Nil, Nil)
URLErrorCannotDecodeContentData == Error("NSURLErrorDomain", -1016, Nil, Nil)
URLErrorUserAuthenticationRequired == Error("NSURLErrorDomain", -1013, Nil, Nil)
URLErrorTimedOut == Error("NSURLErrorDomain", -1001, Nil, Nil)
DecodingError == Error("Swift.DecodingError", 0, Nil, Nil)
HPKEOpenError == Error("SwiftHPKE", 0, Nil, Nil)
CryptoKitError == Error("CryptoKit", 0, Nil, Nil)
MissingAuthorizationKey == Error("KMS", -1013, Nil, Nil)
ChildWalletMissing == Error("SendMoney", 1, Nil, Nil)
ParentWalletMissing == Error("SendMoney", 2, Nil, Nil)
GridSubmitError(status, body) ==
    Error("GridSubmit", status, Some(status), Some(body))

\* ------------------------------------------------------------- HPKEManager
HpkePrivate(id) == [kind |-> "hpke_private_raw", id |-> id]
HpkePublicDER(id) == [kind |-> "hpke_public_der", id |-> id]

generateAndStoreKeyPair(st, id) ==
    [st EXCEPT !.kc = KeychainSet(
                        KeychainSet(@, "hpke_private_raw", HpkePrivate(id)),
                        "hpke_public_der", HpkePublicDER(id))]

\* ensureKeysPresent generating a keypair on every call.
ensureKeysPresent_AlwaysGenerates(st, id) == generateAndStoreKeyPair(st, id)

ensureKeysPresent(st, id) ==
    IF KeychainGet(st.kc, "hpke_private_raw") = Nil
       \/ KeychainGet(st.kc, "hpke_public_der") = Nil
    THEN generateAndStoreKeyPair(st, id)
    ELSE st

\* The store after the call; the returned text is the stored public key.
publicKeyDERBase64(st, id) ==
    IF KeychainGet(st.kc, "hpke_public_der") # Nil
    THEN st
    ELSE generateAndStoreKeyPair(st, id)

Thrown(err) == [ok |-> FALSE, value |-> Nil, error |-> Some(err)]
Returned(v) == [ok |-> TRUE, value |-> Some(v), error |-> Nil]

decryptAuthorizationKey(st, blob) ==
    LET privRaw == KeychainGet(st.kc, "hpke_private_raw") IN
    IF privRaw = Nil THEN Thrown(URLErrorUserAuthenticationRequired)
    ELSE IF ~blob.ekB64 \/ ~blob.ctB64
    THEN Thrown(URLErrorCannotDecodeContentData)
    ELSE IF blob.encForm \notin {"x963", "spki"}
    THEN Thrown(URLErrorCannotDecodeContentData)
    ELSE IF ~blob.intact \/ blob.sealedTo # privRaw[1].id
    THEN Thrown(HPKEOpenError)
    ELSE Returned(blob.plaintext)

\* The deepest candidate, the first of them among equals; its 32 bytes
\* when they are all there.
RECURSIVE DeepestFrom(_, _, _)
DeepestFrom(cands, i, best) ==
    IF i > Len(cands) THEN best
    ELSE DeepestFrom(cands, i + 1,
                     IF cands[best].depth < cands[i].depth THEN i ELSE best)

extractRawP256PrivateKey(plaintext) ==
    IF plaintext = <<>> THEN Nil
    ELSE LET bestCandidate == plaintext[DeepestFrom(plaintext, 2, 1)] IN
         IF bestCandidate.fits THEN Some(bestCandidate.scalar) ELSE Nil

\* refresh without the early return for a key already present.
refreshDecryptedAuthorizationKeyIfPossible_NoEarlyReturn(st) ==
    LET raw == getGridRawResponse(st)
    IN  IF raw = Nil THEN st
        ELSE LET found == findEncryptedAuthKey(raw[1]) IN
             IF found = Nil THEN st
             ELSE LET dec == decryptAuthorizationKey(st, found[1]) IN
                  IF ~dec.ok THEN st
                  ELSE LET raw32 == extractRawP256PrivateKey(dec.value[1]) IN
                       IF raw32 = Nil THEN st
                       ELSE setDecryptedAuthorizationKey(st, raw32[1])

refreshDecryptedAuthorizationKeyIfPossible(st) ==
    LET key == getDecryptedAuthorizationKey(st)
        raw == getGridRawResponse(st)
    IN  IF key # Nil THEN st
        ELSE IF raw = Nil THEN st
        ELSE LET found == findEncryptedAuthKey(raw[1]) IN
             IF found = Nil THEN st
             ELSE LET dec == decryptAuthorizationKey(st, found[1]) IN
                  IF ~dec.ok THEN st
                  ELSE LET raw32 == extractRawP256PrivateKey(dec.value[1]) IN
                       IF raw32 = Nil THEN st
                       ELSE setDecryptedAuthorizationKey(st, raw32[1])

ensureAddressFromStoredGrid(st, sess) ==
    IF SessionField(sess, "address") # Nil THEN st
    ELSE LET raw == getGridRawResponse(st) IN
         IF raw = Nil THEN st
         ELSE setAddress(st, sess, Some(raw[1].address))

extractAndStorePrivyAccessToken(st, raw) ==
    LET token == findPrivyAccessToken(raw) IN
    IF token = Nil THEN st ELSE setPrivyAccessToken(st, token[1])

\* ------------------------------------------------------- prepare / submit
\* A kms_payloads entry by the branch of the signer it takes: a base64
\* payload holding JSON, a base64 payload holding other bytes, a payload
\* that is an object, a payload of another type, an entry without payload.
StubShapes == {"b64json", "b64raw", "object", "other", "bare"}
KMSStub(shape, v) == [shape |-> shape, v |-> v]
KMSStubs == {KMSStub(shape, 1) : shape \in StubShapes}

\* The kms_payloads lists tried: the empty list, every entry alone, and the
\* lists of 2..MaxStubs entries that alternate the two base64 shapes.
RECURSIVE Alternate(_, _, _)
Alternate(x, y, n) ==
    IF n = 0 THEN <<>> ELSE <<x>> \o Alternate(y, x, n - 1)

KMSStubLists ==
    {<<>>}
    \cup {<<s>> : s \in KMSStubs}
    \cup {Alternate(KMSStub("b64json", 1), KMSStub("b64raw", 1), n) :
            n \in 2..MaxStubs}
    \cup {Alternate(KMSStub("b64raw", 1), KMSStub("b64json", 1), n) :
            n \in 2..MaxStubs}

\* The bytes the signer hashes for one entry.
CanonicalBytes(entry) ==
    CASE entry.shape = "b64json" ->
           [form |-> "canonical", of |-> "payload", v |-> entry.v]
      [] entry.shape = "b64raw" ->
           [form |-> "raw", of |-> "payload", v |-> entry.v]
      [] entry.shape = "object" ->
           [form |-> "canonical", of |-> "payload", v |-> entry.v]
      [] entry.shape = "other" ->
           [form |-> "canonical", of |-> "entry", v |-> entry.v]
      [] OTHER ->
           [form |-> "canonical", of |-> "entry", v |-> entry.v]

\* An ECDSA signature is fixed by the key and the bytes it verifies for.
Signature(key, bytes) == [key |-> key, over |-> bytes]
KMSPayloadSignature(provider, signatureBase64) ==
    [provider |-> provider, signatureBase64 |-> signatureBase64]

Tx(kind, from, to, blockhash) ==
    [kind |-> kind, from |-> from, to |-> to, blockhash |-> blockhash]
PreparedTxs == {Tx("prepared", "A1", "C1", "h1")}

PrepareData(transaction, kms_payloads) ==
    [transaction |-> transaction, kms_payloads |-> kms_payloads]
NoPrepareData == PrepareData(Tx("none", "", "", ""), Nil)

HTTPResponse(transport, status, decodable, data, body) ==
    [transport |-> transport, status |-> status, decodable |-> decodable,
     data |-> data, body |-> body]

PrepareResponses ==
    {HTTPResponse(FALSE, 0, FALSE, NoPrepareData, ""),
     HTTPResponse(TRUE, 500, FALSE, NoPrepareData, "busy"),
     HTTPResponse(TRUE, 500, TRUE,
                  PrepareData(Tx("prepared", "A1", "C1", "h1"),
                              Some(<<KMSStub("b64json", 1)>>)), "late"),
     HTTPResponse(TRUE, 200, FALSE, NoPrepareData, "{}")}
    \cup {HTTPResponse(TRUE, 200, TRUE, PrepareData(t, Nil), "") :
            t \in PreparedTxs}
    \cup {HTTPResponse(TRUE, 200, TRUE, PrepareData(t, Some(k)), "") :
            t \in PreparedTxs, k \in KMSStubLists}

SubmitData(transaction_signature) ==
    [transaction_signature |-> transaction_signature]

SubmitResponses ==
    {HTTPResponse(FALSE, 0, FALSE, SubmitData(Nil), ""),
     HTTPResponse(TRUE, 500, FALSE, SubmitData(Nil), "rejected"),
     HTTPResponse(TRUE, 500, TRUE, SubmitData(Some("sig1")),
                  "late"),
     HTTPResponse(TRUE, 200, FALSE, SubmitData(Nil), "{}"),
     HTTPResponse(TRUE, 200, TRUE, SubmitData(Nil), ""),
     HTTPResponse(TRUE, 200, TRUE, SubmitData(Some("sig1")), "")}

\* prepare without the status guard.
prepare_IgnoresStatus(resp) ==
    IF ~resp.transport THEN Thrown(URLErrorTimedOut)
    ELSE IF ~resp.decodable THEN Thrown(DecodingError)
    ELSE Returned(resp.data)

\* GridTransfers.prepare after the request returned.
prepare(resp) ==
    IF ~resp.transport THEN Thrown(URLErrorTimedOut)
    ELSE IF ~Is2xx(resp.status) THEN Thrown(URLErrorBadServerResponse)
    ELSE IF ~resp.decodable THEN Thrown(DecodingError)
    ELSE Returned(resp.data)

\* GridTransfers.submit after the request returned.
submit(resp) ==
    IF ~resp.transport THEN Thrown(URLErrorTimedOut)
    ELSE IF ~Is2xx(resp.status)
    THEN Thrown(GridSubmitError(resp.status, resp.body))
    ELSE IF ~resp.decodable THEN Thrown(DecodingError)
    ELSE Returned(resp.data)

\* ----------------------------------------------------------- GridKMSSigner
\* The loop with out.insert(.., at: 0) for out.append(..).
RECURSIVE SignEach_Prepends(_, _, _, _)
SignEach_Prepends(payloads, key, i, out) ==
    IF i > Len(payloads) THEN out
    ELSE SignEach_Prepends(
           payloads, key, i + 1,
           <<KMSPayloadSignature(
               "privy", Signature(key, CanonicalBytes(payloads[i])))>> \o out)

RECURSIVE SignEach(_, _, _, _)
SignEach(payloads, key, i, out) ==
    IF i > Len(payloads) THEN out
    ELSE SignEach(payloads, key, i + 1,
                  Append(out, KMSPayloadSignature(
                                "privy",
                                Signature(key, CanonicalBytes(payloads[i])))))

\* The signer returning [] for a missing key.
signKMSpayloadsIfNeeded_NoKeyGuard(st, prepareData) ==
    LET payloads == IF prepareData.kms_payloads = Nil THEN <<>>
                    ELSE prepareData.kms_payloads[1]
        st1 == IF getDecryptedAuthorizationKey(st) = Nil
               THEN refreshDecryptedAuthorizationKeyIfPossible(st)
               ELSE st
        keyData == getDecryptedAuthorizationKey(st1)
    IN  IF payloads = <<>> THEN [st |-> st, r |-> Returned(<<>>)]
        ELSE IF keyData = Nil THEN [st |-> st1, r |-> Returned(<<>>)]
        ELSE IF keyData[1] \notin ValidScalars
        THEN [st |-> st1, r |-> Thrown(CryptoKitError)]
        ELSE [st |-> st1, r |-> Returned(SignEach(payloads, keyData[1], 1, <<>>))]

\* The store after the call and what the call returned or threw.
signKMSpayloadsIfNeeded(st, prepareData) ==
    LET payloads == IF prepareData.kms_payloads = Nil THEN <<>>
                    ELSE prepareData.kms_payloads[1]
        st1 == IF getDecryptedAuthorizationKey(st) = Nil
               THEN refreshDecryptedAuthorizationKeyIfPossible(st)
               ELSE st
        keyData == getDecryptedAuthorizationKey(st1)
    IN  IF payloads = <<>> THEN [st |-> st, r |-> Returned(<<>>)]
        ELSE IF keyData = Nil
        THEN [st |-> st1, r |-> Thrown(MissingAuthorizationKey)]
        ELSE IF keyData[1] \notin ValidScalars
        THEN [st |-> st1, r |-> Thrown(CryptoKitError)]
        ELSE [st |-> st1, r |-> Returned(SignEach(payloads, keyData[1], 1, <<>>))]

\* ----------------------------------------------------------- Base58, build
ChildWallets == {"C1", "O0"}
\* "O0" has characters outside the Base58 alphabet.
Base58Decodes(s) == s # "O0"

buildTransfer(fromAddress, toAddress, recentBlockhash) ==
    IF ~Base58Decodes(recentBlockhash) \/ ~Base58Decodes(fromAddress)
       \/ ~Base58Decodes(toAddress)
    THEN Thrown(URLErrorCannotDecodeContentData)
    ELSE Returned(Tx("unsigned", fromAddress, toAddress, recentBlockhash))

VerifyResponses ==
    {HTTPResponse(FALSE, 0, FALSE, GridRaw("", Nil, "none", NoBlob, Nil), ""),
     HTTPResponse(TRUE, 500, FALSE,
                  GridRaw("", Nil, "none", NoBlob, Nil), "denied"),
     HTTPResponse(TRUE, 200, FALSE,
                  GridRaw("", Nil, "none", NoBlob, Nil), "{}")}
    \cup {HTTPResponse(TRUE, 200, TRUE, raw, "") : raw \in GridRaws}

\* GridAPI.verifyAccount and GridAPI.authVerify after the request returned.
verify(resp) ==
    IF ~resp.transport THEN Thrown(URLErrorTimedOut)
    ELSE IF ~Is2xx(resp.status) THEN Thrown(URLErrorBadServerResponse)
    ELSE IF ~resp.decodable THEN Thrown(DecodingError)
    ELSE Returned(resp.data)

\* base64EncodedString() of public bytes.
Base64(x) == [base64 |-> x]

\* A verify request that carries the HPKE private scalar.
verifyRequestBody_SendsPrivateKey(st, email, otpCode) ==
    [email |-> email, otpCode |-> otpCode,
     kmsProviderConfig |->
       [encryptionPublicKey |->
          Base64(KeychainGet(st.kc, "hpke_private_raw")[1])]]

\* The body of the verifyAccount and authVerify requests, built after
\* publicKeyDERBase64 returned in store st.
verifyRequestBody(st, email, otpCode) ==
    [email |-> email, otpCode |-> otpCode,
     kmsProviderConfig |->
       [encryptionPublicKey |->
          Base64(KeychainGet(st.kc, "hpke_public_der")[1])]]

\* ------------------------------------------------------------------ Base58
\* A byte is 0..255. A character of a Base58 string is its index in the
\* alphabet, 0 ("1") to 57 ("z"); NotInAlphabet is any other character.
AlphabetLen == 58
Alphabet == 0 .. (AlphabetLen - 1)
NotInAlphabet == AlphabetLen

Zeros(n) == [i \in 1..n |-> 0]
Reversed(seq) == [i \in 1..Len(seq) |-> seq[Len(seq) + 1 - i]]

\* The number of leading elements of seq equal to v.
RECURSIVE LeadingCount(_, _)
LeadingCount(seq, v) ==
    IF seq = <<>> \/ Head(seq) # v THEN 0
    ELSE 1 + LeadingCount(Tail(seq), v)

\* decode, the loop over j: b256 * 58 + carry, from the last byte up.
RECURSIVE DecodeMulAdd(_, _, _)
DecodeMulAdd(b256, idx, carry) ==
    IF idx < 1 THEN [b256 |-> b256, carry |-> carry]
    ELSE LET x == b256[idx] * 58 + carry
         IN  DecodeMulAdd([b256 EXCEPT ![idx] = x % 256], idx - 1, x \div 256)

\* decode, `while carry > 0 { b256.insert(carry & 0xFF, at: 0) ... }`.
RECURSIVE DecodeCarry(_, _)
DecodeCarry(b256, carry) ==
    IF carry > 0 THEN DecodeCarry(<<carry % 256>> \o b256, carry \div 256)
    ELSE b256

\* decode, the loop over the characters of s, after its first n rounds.
RECURSIVE DecodeChars(_, _)
DecodeChars(s, n) ==
    IF n = 0 THEN Returned(<<>>)
    ELSE LET before == DecodeChars(s, n - 1)
         IN  IF ~before.ok THEN before
             ELSE IF s[n] \notin Alphabet
             THEN Thrown(URLErrorCannotDecodeContentData)
             ELSE LET b256 == before.value[1]
                      r == DecodeMulAdd(b256, Len(b256), s[n])
                  IN  Returned(DecodeCarry(r.b256, r.carry))

Base58_decode(s) ==
    LET zeros == LeadingCount(s, 0)
        r == DecodeChars(s, Len(s))
    IN  IF ~r.ok THEN r
        ELSE LET b256 == r.value[1]
                 lead == LeadingCount(b256, 0)
                 tail == SubSeq(b256, lead + 1, Len(b256))
             IN  Returned(Zeros(zeros) \o tail)

\* encode, the loop over digit_idx: digits * 256 + carry, lowest digit first.
RECURSIVE EncodeMulAdd(_, _, _)
EncodeMulAdd(digits, digit_idx, carry) ==
    IF digit_idx > Len(digits) THEN [digits |-> digits, carry |-> carry]
    ELSE LET val == digits[digit_idx] * 256 + carry
         IN  EncodeMulAdd([digits EXCEPT ![digit_idx] = val % 58],
                          digit_idx + 1, val \div 58)

\* encode, `while carry > 0 { digits.append(alphabet[carry % 58]) ... }`.
RECURSIVE EncodeCarry(_, _)
EncodeCarry(digits, carry) ==
    IF carry > 0 THEN EncodeCarry(Append(digits, carry % 58), carry \div 58)
    ELSE digits

\* encode, the loop over the bytes of num, after its first n rounds;
\* digits is what the loop starts from.
RECURSIVE EncodeBytes(_, _, _)
EncodeBytes(num, n, digits) ==
    IF n = 0 THEN digits
    ELSE LET before == EncodeBytes(num, n - 1, digits)
             r == EncodeMulAdd(before, 1, num[n])
         IN  EncodeCarry(r.digits, r.carry)

\* The "1" digits of the leading zero bytes are in `digits` before the
\* conversion loop runs, so the loop takes them for the lowest digits of
\* the number.
Base58_encode(data) ==
    LET zeros == LeadingCount(data, 0)
        num == SubSeq(data, zeros + 1, Len(data))
    IN  Reversed(EncodeBytes(num, Len(num), Zeros(zeros)))

\* --------------------------------------------------- SolanaLegacyTransaction
RECURSIVE encodeShortVec(_)
\* A shortvec encoder that never sets the continuation bit.
encodeShortVec_NoContinuationBit(len) ==
    LET elem == len % 128
        rem == len \div 128
    IN  IF rem = 0 THEN <<elem>> ELSE <<elem>> \o encodeShortVec(rem)

encodeShortVec(len) ==
    LET elem == len % 128
        rem == len \div 128
    IN  IF rem = 0 THEN <<elem>> ELSE <<elem + 128>> \o encodeShortVec(rem)

SolanaLegacyInstruction(programId, accounts, data) ==
    [programId |-> programId, accounts |-> accounts, data |-> data]

SolanaLegacyTransaction(accountKeys, recentBlockhash, instructions, numRequiredSignatures, numReadonlySigned, numReadonlyUnsigned) ==
    [accountKeys |-> accountKeys, recentBlockhash |-> recentBlockhash,
     instructions |-> instructions,
     numRequiredSignatures |-> numRequiredSignatures,
     numReadonlySigned |-> numReadonlySigned,
     numReadonlyUnsigned |-> numReadonlyUnsigned]

RECURSIVE Concat(_)
Concat(seqs) == IF seqs = <<>> THEN <<>> ELSE Head(seqs) \o Concat(Tail(seqs))

\* accountKeys.firstIndex(of:), zero-based.
firstIndex(keys, key) ==
    IF \E i \in DOMAIN keys : keys[i] = key
    THEN Some((CHOOSE i \in DOMAIN keys :
                 keys[i] = key /\ \A j \in 1..(i - 1) : keys[j] # key) - 1)
    ELSE Nil

\* The bytes of one signature placeholder.
SignatureLen == 64

\* serializeUnsigned, the loop over the instructions: the records it
\* appends. An instruction whose program id is not an account key is passed
\* over (`continue`) and appends nothing.
RECURSIVE InstructionRecords(_, _)
InstructionRecords(tx, i) ==
    IF i > Len(tx.instructions) THEN <<>>
    ELSE LET ix == tx.instructions[i]
             progIndex == firstIndex(tx.accountKeys, ix.programId)
         IN  IF progIndex = Nil THEN InstructionRecords(tx, i + 1)
             ELSE << <<progIndex[1]>>
                     \o encodeShortVec(Len(ix.accounts)) \o ix.accounts
                     \o encodeShortVec(Len(ix.data)) \o ix.data >>
                  \o InstructionRecords(tx, i + 1)

serializeUnsigned(tx) ==
    encodeShortVec(tx.numRequiredSignatures)
    \o Zeros(tx.numRequiredSignatures * SignatureLen)
    \o <<tx.numRequiredSignatures, tx.numReadonlySigned,
         tx.numReadonlyUnsigned>>
    \o encodeShortVec(Len(tx.accountKeys))
    \o Concat(tx.accountKeys)
    \o tx.recentBlockhash
    \o encodeShortVec(Len(tx.instructions))
    \o Concat(InstructionRecords(tx, 1))

\* SystemProgramBuilder.programId: Base58.decode of thirty-two "1".
SystemProgramAddress == Zeros(32)
SystemProgramId == Base58_decode(SystemProgramAddress).value[1]

\* The eight bytes of a UInt64, lowest first.
RECURSIVE LittleEndian(_, _)
LittleEndian(amount, n) ==
    IF n = 0 THEN <<>>
    ELSE <<amount % 256>> \o LittleEndian(amount \div 256, n - 1)

transferInstruction(fromIndex, toIndex, lamports) ==
    SolanaLegacyInstruction(SystemProgramId, <<fromIndex, toIndex>>,
                            <<2, 0, 0, 0>> \o LittleEndian(lamports, 8))

\* buildTransfer from the returned blockhash to the transaction it
\* serializes.
buildTransferTx(fromAddress, toAddress, recentBlockhash, lamports) ==
    LET recentBlockhashData == Base58_decode(recentBlockhash)
        fromKey == Base58_decode(fromAddress)
        toKey == Base58_decode(toAddress)
    IN  IF ~recentBlockhashData.ok THEN recentBlockhashData
        ELSE IF ~fromKey.ok THEN fromKey
        ELSE IF ~toKey.ok THEN toKey
        ELSE Returned(SolanaLegacyTransaction(
                 <<fromKey.value[1], toKey.value[1], SystemProgramId>>,
                 recentBlockhashData.value[1],
                 <<transferInstruction(0, 1, lamports)>>,
                 1, 0, 1))

\* ------------------------------------------------------ TokenProgramBuilder
\* A SHA-256 digest taken as an address: its 32 bytes are kept as what is
\* read of them, bit 7 of byte 31 and whether the bytes decompress to a
\* point of Ed25519, and `of`, the bump that was hashed. EmptyData is Data().
Digest(of, highBit, onCurve) ==
    [count |-> 32, highBit |-> highBit, onCurve |-> onCurve, of |-> of]
EmptyData == [count |-> 0]

isOffCurveEd25519(pubkey) ==
    IF pubkey.count # 32 THEN FALSE
    ELSE ~pubkey.highBit

FirstBump == 255

\* deriveAssociatedTokenAddress; sha256[b] is the digest of [ATA program,
\* wallet, token program, mint, b]. The loop counts bump down from 255 while
\* bump > 0 and returns at the first digest the test accepts: the accepted
\* bump that no accepted bump exceeds.
deriveAssociatedTokenAddress(sha256) ==
    LET accepted == {bump \in 1..FirstBump : isOffCurveEd25519(sha256[bump])}
    IN  IF accepted = {}
        THEN [address |-> EmptyData, bump |-> 0]
        ELSE LET bump == CHOOSE b \in accepted : \A c \in accepted : c <= b
             IN  [address |-> sha256[bump], bump |-> bump]

\* ------------------------------------------------------------ CanonicalJSON
\* A JSON value as Swift holds it. A string, and the output, is the
\* sequence of its Unicode scalar values. The pairs of a dictionary are in
\* the order the dictionary happens to iterate in; its keys are distinct.
JSONNumber(n) == [t |-> "number", lit |-> <<n>>, kids |-> <<>>]
JSONString(str) == [t |-> "string", lit |-> str, kids |-> <<>>]
JSONArray(items) ==
    [t |-> "array", lit |-> <<>>,
     kids |-> [i \in DOMAIN items |-> [k |-> <<>>, v |-> items[i]]]]
JSONDict(pairs) == [t |-> "dict", lit |-> <<>>, kids |-> pairs]

\* String.< on strings of ASCII scalars.
RECURSIVE StringLess(_, _)
StringLess(a, b) ==
    IF b = <<>> THEN FALSE
    ELSE IF a = <<>> THEN TRUE
    ELSE IF Head(a) # Head(b) THEN Head(a) < Head(b)
    ELSE StringLess(Tail(a), Tail(b))

\* keys.sorted()
RECURSIVE Sorted(_)
Sorted(keys) ==
    IF keys = {} THEN <<>>
    ELSE LET least == CHOOSE k \in keys :
                         \A other \in keys \ {k} : StringLess(k, other)
         IN  <<least>> \o Sorted(keys \ {least})

\* String(format: "%04X", v) for v below 0x20.
HexDigit(h) == IF h < 10 THEN 48 + h ELSE 55 + h
Hex4(v) == <<48, 48, HexDigit(v \div 16), HexDigit(v % 16)>>

RECURSIVE EscapeScalars(_)
EscapeScalars(str) ==
    IF str = <<>> THEN <<>>
    ELSE LET ch == Head(str)
         IN  (CASE ch = 34 -> <<92, 34>>
                [] ch = 92 -> <<92, 92>>
                [] ch = 8 -> <<92, 98>>
                [] ch = 12 -> <<92, 102>>
                [] ch = 10 -> <<92, 110>>
                [] ch = 13 -> <<92, 114>>
                [] ch = 9 -> <<92, 116>>
                [] ch \in 0..31 /\ ch \notin {8, 9, 10, 12, 13} ->
                     <<92, 117>> \o Hex4(ch)
                [] OTHER -> <<ch>>)
             \o EscapeScalars(Tail(str))

jsonEscapeString(str) == <<34>> \o EscapeScalars(str) \o <<34>>

\* NumberFormatter, decimal style without grouping, of an integer.
RECURSIVE DecimalDigits(_)
DecimalDigits(n) ==
    IF n < 10 THEN <<48 + n>>
    ELSE DecimalDigits(n \div 10) \o <<48 + (n % 10)>>

jsonNumberString(n) ==
    IF n < 0 THEN <<45>> \o DecimalDigits(-n) ELSE DecimalDigits(n)

\* parts.joined(separator: ",")
RECURSIVE JoinedByComma(_)
JoinedByComma(parts) ==
    IF parts = <<>> THEN <<>>
    ELSE IF Len(parts) = 1 THEN parts[1]
    ELSE parts[1] \o <<44>> \o JoinedByComma(Tail(parts))

\* dict[key]!
Lookup(pairs, key) ==
    pairs[CHOOSE i \in DOMAIN pairs : pairs[i].k = key].v

RECURSIVE canonicalString(_)
\* A serializer that writes the keys in the dictionary's iteration order.
canonicalString_Unsorted(value) ==
    CASE value.t = "dict" ->
           <<123>>
           \o JoinedByComma([i \in DOMAIN value.kids |->
                               jsonEscapeString(value.kids[i].k) \o <<58>>
                               \o canonicalString(value.kids[i].v)])
           \o <<125>>
      [] value.t = "array" ->
           <<91>>
           \o JoinedByComma([i \in DOMAIN value.kids |->
                               canonicalString(value.kids[i].v)])
           \o <<93>>
      [] value.t = "string" -> jsonEscapeString(value.lit)
      [] value.t = "number" -> jsonNumberString(value.lit[1])

canonicalString(value) ==
    CASE value.t = "dict" ->
           LET keys == Sorted({value.kids[i].k : i \in DOMAIN value.kids})
           IN  <<123>>
               \o JoinedByComma([i \in DOMAIN keys |->
                                   jsonEscapeString(keys[i]) \o <<58>>
                                   \o canonicalString(
                                          Lookup(value.kids, keys[i]))])
               \o <<125>>
      [] value.t = "array" ->
           <<91>>
           \o JoinedByComma([i \in DOMAIN value.kids |->
                               canonicalString(value.kids[i].v)])
           \o <<93>>
      [] value.t = "string" -> jsonEscapeString(value.lit)
      [] value.t = "number" -> jsonNumberString(value.lit[1])

\* ------------------------------------------------- HPKEManager, SPKI DER
\* The process stopped on a Swift runtime error: nothing is returned and
\* nothing is thrown.
Trapped == [ok |-> FALSE, value |-> Nil, error |-> Nil]

\* readLength, `len = (len << 8) | Int(data[idx])` over the length bytes.
RECURSIVE BigEndian(_, _)
BigEndian(bytes, len) ==
    IF bytes = <<>> THEN len
    ELSE BigEndian(Tail(bytes), len * 256 + Head(bytes))

\* readLength(data, &idx); idx counts from 0. ok is FALSE when it throws.
readLength(data, idx) ==
    IF ~(idx < Len(data)) THEN [ok |-> FALSE, len |-> 0, idx |-> idx]
    ELSE LET first == data[idx + 1]
             count == first % 128
         IN  IF first < 128 THEN [ok |-> TRUE, len |-> first, idx |-> idx + 1]
             ELSE IF ~(count > 0 /\ idx + 1 + count <= Len(data))
             THEN [ok |-> FALSE, len |-> 0, idx |-> idx + 1]
             ELSE [ok |-> TRUE,
                   len |-> BigEndian(SubSeq(data, idx + 2, idx + 1 + count), 0),
                   idx |-> idx + 1 + count]

X963Len == 65

\* x963FromSPKIDER, from the BIT STRING's length on; i is the index after
\* the length. `der[i..<end]` with end < i is a range whose lower bound
\* exceeds its upper bound.
BitStringContent(der, i, bitLen) ==
    IF ~(i < Len(der)) THEN Thrown(URLErrorCannotDecodeContentData)
    ELSE LET unusedBits == der[i + 1]
             from == i + 1
             end == from + (bitLen - 1)
             x963 == SubSeq(der, from + 1, end)
         IN  IF unusedBits # 0 THEN Thrown(URLErrorCannotDecodeContentData)
             ELSE IF ~(end <= Len(der))
             THEN Thrown(URLErrorCannotDecodeContentData)
             ELSE IF end < from THEN Trapped
             ELSE IF ~(x963 # <<>> /\ x963[1] = 4 /\ Len(x963) = X963Len)
             THEN Thrown(URLErrorCannotDecodeContentData)
             ELSE Returned(x963)

x963FromSPKIDER(der) ==
    IF ~(0 < Len(der) /\ der[1] = 48)
    THEN Thrown(URLErrorCannotDecodeContentData)
    ELSE LET outer == readLength(der, 1)
         IN  IF ~outer.ok THEN Thrown(URLErrorCannotDecodeContentData)
             ELSE IF ~(outer.idx < Len(der) /\ der[outer.idx + 1] = 48)
             THEN Thrown(URLErrorCannotDecodeContentData)
             ELSE LET alg == readLength(der, outer.idx + 1)
                      i == alg.idx + alg.len
                  IN  IF ~alg.ok THEN Thrown(URLErrorCannotDecodeContentData)
                      ELSE IF ~(i < Len(der) /\ der[i + 1] = 3)
                      THEN Thrown(URLErrorCannotDecodeContentData)
                      ELSE LET bit == readLength(der, i + 1)
                           IN  IF ~bit.ok
                               THEN Thrown(URLErrorCannotDecodeContentData)
                               ELSE BitStringContent(der, bit.idx, bit.len)

\* ------------------------------------------------ backend_mini, database
\* Strings that the server folds or lower-cases are sequences of Unicode
\* code points.  strings.ToLower maps each rune with unicode.ToLower:
\* A..Z (65..90) to a..z, the Kelvin sign (8490) to k (107); the long s
\* (383) is a lower-case letter already and stays.
ToLowerRune(r) ==
    IF r \in 65..90 THEN r + 32 ELSE IF r = 8490 THEN 107 ELSE r

ToLower(str) == [i \in 1..Len(str) |-> ToLowerRune(str[i])]

\* strings.EqualFold compares rune by rune under simple case folding
\* (unicode.SimpleFold): the orbit of s is {S, s, long s}, the orbit of k is
\* {K, k, Kelvin sign}, every other letter folds with its other case only.
\* FoldRune picks one member of the orbit.
FoldRune(r) ==
    IF r = 383 THEN 115 ELSE ToLowerRune(r)

EqualFold(a, b) ==
    /\ Len(a) = Len(b)
    /\ \A i \in 1..Len(a) : FoldRune(a[i]) = FoldRune(b[i])

\* strings.TrimSpace(x) == "": an e-mail of spaces (32) only, a name or an
\* id that is empty or one space.
Blank(str) == \A i \in 1..Len(str) : str[i] = 32
BlankText(t) == t \in {"", " "}

\* Migrate: both tables start empty.  Each table is the set of its rows;
\* parents.id, parents.email, children.id and children.email are unique.
\* registration_date is left out: nothing reads it.
EmptyMiniDB == [parents |-> {}, children |-> {}]

ParentRow(id, name, email) ==
    [id |-> id, name |-> name, email |-> email, kids_list |-> <<>>,
     wallet |-> ""]

ChildRow(id, name, email, parentID, wallet) ==
    [id |-> id, name |-> name, email |-> email, parent_id |-> parentID,
     wallet |-> wallet]

ParentKid(email, wallet) == [email |-> email, wallet |-> wallet]

\* What a database function hands back: the database as the call leaves it
\* (a failed transaction is rolled back, so it is the one it was given),
\* the row returned, or the error.
DBDone(db, row) == [ok |-> TRUE, db |-> db, row |-> Some(row), error |-> ""]
DBFailed(db, err) == [ok |-> FALSE, db |-> db, row |-> Nil, error |-> err]

\* SELECT ... FROM parents WHERE lower(email)=?  -- SQLite's lower() maps
\* A..Z only; the stored e-mails have no such letters left.
GetParentByEmail(db, email) ==
    {p \in db.parents : p.email = ToLower(email)}

GetParentByID(db, id) == {p \in db.parents : p.id = id}

GetChildByEmail(db, email) ==
    {c \in db.children : c.email = ToLower(email)}

\* UPDATE parents SET kids_list=? WHERE id=?
SetKidsList(db, parentID, kids) ==
    [db EXCEPT !.parents =
        {IF p.id = parentID THEN [p EXCEPT !.kids_list = kids] ELSE p :
            p \in db.parents}]

\* The first entry whose e-mail folds to the child's gets the wallet,
\* otherwise an entry is appended.  ok is FALSE when the parent row is
\* missing (Scan fails).
upsertChildInParentKidsListTx(db, parentID, childEmail, childWallet) ==
    IF GetParentByID(db, parentID) = {}
    THEN [ok |-> FALSE, db |-> db]
    ELSE LET kids == (CHOOSE p \in db.parents : p.id = parentID).kids_list
             hits == {i \in 1..Len(kids) : EqualFold(kids[i].email, childEmail)}
             first == CHOOSE i \in hits : \A j \in hits : i <= j
         IN  [ok |-> TRUE,
              db |-> SetKidsList(db, parentID,
                        IF hits # {}
                        THEN [kids EXCEPT ![first].wallet = childWallet]
                        ELSE Append(kids, ParentKid(ToLower(childEmail),
                                                    childWallet)))]

addChildToParentKidsListTx(db, parentID, childEmail, childWallet) ==
    upsertChildInParentKidsListTx(db, parentID, childEmail, childWallet)

KeepsEntry(childEmail, k) == ~EqualFold(k.email, childEmail)

removeChildFromParentKidsListTx(db, parentID, childEmail) ==
    IF GetParentByID(db, parentID) = {}
    THEN [ok |-> FALSE, db |-> db]
    ELSE LET kids == (CHOOSE p \in db.parents : p.id = parentID).kids_list
         IN  [ok |-> TRUE,
              db |-> SetKidsList(db, parentID,
                        SelectSeq(kids, LAMBDA k : KeepsEntry(childEmail, k)))]

\* ----------------------------------------------------- backend, database
\* A nullable column is an optional value, Nil for NULL.  Scanning NULL
\* into a Go string fails ("converting NULL to string is unsupported").
ErrNoRows == "sql: no rows in result set"
ErrScanNull == "sql: Scan error: converting NULL to string is unsupported"
ErrScanFloat == "sql: Scan error: converting driver.Value type float64 to a int64"
ErrUnique == "constraint failed: UNIQUE constraint failed"
ErrForeignKey == "constraint failed: FOREIGN KEY constraint failed"

\* Balances are int64 in Go and INTEGER columns in SQLite.  The model's
\* integers have Int64Bits bits and its doubles a mantissa of one bit
\* less, so that, as for 64 and 53 bits, the doubles just above MaxInt64
\* are two or more apart.
Int64Bits == 3
MaxInt64 == 2^(Int64Bits - 1) - 1
MinInt64 == -(2^(Int64Bits - 1))
MantissaBits == Int64Bits - 1

\* A value of the balance column as SQLite holds it: an INTEGER, or a REAL
\* once an addition has overflowed.
Integer(n) == [real |-> FALSE, value |-> n]
Real(v) == [real |-> TRUE, value |-> v]

\* The double nearest to the non-negative integer v, ties to the even
\* mantissa.
RoundFloat(v) ==
    IF v < 2^MantissaBits THEN v
    ELSE LET e == CHOOSE e \in 0..(3 * Int64Bits) : 2^e <= v /\ v < 2^(e + 1)
             step == 2^(e - MantissaBits + 1)
             lower == (v \div step) * step
         IN  IF 2 * (v - lower) < step THEN lower
             ELSE IF 2 * (v - lower) > step THEN lower + step
             ELSE IF (lower \div step) % 2 = 0 THEN lower
             ELSE lower + step

\* balance + n and balance - n in SQLite, stored into an INTEGER column:
\* integer arithmetic that overflows is redone in floating point, and a
\* REAL is stored as an INTEGER again only when it is strictly inside
\* the int64 range.
SqlStored(real, v) ==
    IF ~real \/ (v > MinInt64 /\ v < MaxInt64) THEN Integer(v)
    ELSE Real(RoundFloat(v))

SqlAdd(balance, n) ==
    LET sum == balance.value + n
    IN  SqlStored(balance.real \/ sum > MaxInt64 \/ sum < MinInt64, sum)

\* Scan of a balance into an int64.
ScanInt64(balance) == ~balance.real

\* migrate: both tables start empty.  uid and created_at are left out: no
\* handler reads them.  hpke_pub_der stands for the pair of key columns,
\* which are always written together.
EmptyBackendDB == [parents |-> {}, kids |-> {}]

ParentRecord(id, name, email) ==
    [id |-> id, name |-> name, email |-> email, balance |-> Integer(0),
     hpke_pub_der |-> Nil, grid_user_id |-> Nil, grid_wallet_id |-> Nil]

KidRecord(id, name, email, parentID) ==
    [id |-> id, parent_id |-> parentID, email |-> email, name |-> name,
     balance |-> Integer(0), hpke_pub_der |-> Nil, grid_user_id |-> Nil,
     grid_wallet_id |-> Nil]

\* INTEGER PRIMARY KEY AUTOINCREMENT, no row is ever deleted.
NextID(rows) == Cardinality(rows) + 1

\* What a Database method hands back.
Found(db, row) == [ok |-> TRUE, db |-> db, row |-> Some(row), error |-> ""]
Failed(db, err) == [ok |-> FALSE, db |-> db, row |-> Nil, error |-> err]

\* email TEXT UNIQUE: two NULLs do not collide, two equal strings do.
EmailTaken(rows, email) ==
    email # Nil /\ \E r \in rows : r.email = email

Database_CreateParent(db, name) ==
    LET row == ParentRecord(NextID(db.parents), name, Nil)
    IN  Found([db EXCEPT !.parents = @ \cup {row}], row)

Database_CreateParentWithEmail(db, name, email) ==
    LET row == ParentRecord(NextID(db.parents), name, Some(email))
    IN  IF EmailTaken(db.parents, Some(email)) THEN Failed(db, ErrUnique)
        ELSE Found([db EXCEPT !.parents = @ \cup {row}], row)

\* FOREIGN KEY(parent_id) REFERENCES parents(id), foreign_keys(ON).
Database_CreateKid(db, name, email, parentID) ==
    LET row == KidRecord(NextID(db.kids), name, Some(email), parentID)
    IN  IF EmailTaken(db.kids, Some(email)) THEN Failed(db, ErrUnique)
        ELSE IF \A p \in db.parents : p.id # parentID
        THEN Failed(db, ErrForeignKey)
        ELSE Found([db EXCEPT !.kids = @ \cup {row}], row)

\* Scan of a parents row: email goes into a string, the grid ids into
\* sql.NullString.
ScanParent(db, rows) ==
    IF rows = {} THEN Failed(db, ErrNoRows)
    ELSE LET p == CHOOSE p \in rows : \A q \in rows : p.id <= q.id
         IN  IF p.email = Nil THEN Failed(db, ErrScanNull) ELSE Found(db, p)

Database_GetParentByID(db, id) ==
    ScanParent(db, {p \in db.parents : p.id = id})

Database_GetParentByEmail(db, email) ==
    ScanParent(db, {p \in db.parents : p.email = Some(email)})

\* Scan of a kids row by GetKidByID, GetKidByName and
\* GetKidByNameAndParent: email and both grid ids go into strings.
ScanKid(db, rows) ==
    IF rows = {} THEN Failed(db, ErrNoRows)
    ELSE LET k == CHOOSE k \in rows : \A q \in rows : k.id <= q.id
         IN  IF k.email = Nil \/ k.grid_user_id = Nil
                  \/ k.grid_wallet_id = Nil
             THEN Failed(db, ErrScanNull)
             ELSE Found(db, k)

Database_GetKidByID(db, id) == ScanKid(db, {k \in db.kids : k.id = id})

Database_GetKidByName(db, name) ==
    ScanKid(db, {k \in db.kids : k.name = name})

Database_GetKidByNameAndParent(db, name, parentID) ==
    ScanKid(db, {k \in db.kids : k.name = name /\ k.parent_id = parentID})

\* UPDATE parents SET ... WHERE id = ?
UpdateParents(db, id, Change(_)) ==
    [db EXCEPT !.parents =
        {IF p.id = id THEN Change(p) ELSE p : p \in db.parents}]

UpdateKids(db, id, Change(_)) ==
    [db EXCEPT !.kids = {IF k.id = id THEN Change(k) ELSE k : k \in db.kids}]

Database_GetParentBalance(db, parentID) ==
    LET rows == {p \in db.parents : p.id = parentID}
        p == CHOOSE p \in rows : TRUE
    IN  IF rows = {} THEN Failed(db, ErrNoRows)
        ELSE IF ~ScanInt64(p.balance) THEN Failed(db, ErrScanFloat)
        ELSE Found(db, p.balance.value)

\* The UPDATE is its own transaction; the balance is read after it.
Database_TopUpParent(db, parentID, amount) ==
    LET Credit(p) == [p EXCEPT !.balance = SqlAdd(@, amount)]
        updated == UpdateParents(db, parentID, Credit)
    IN  Database_GetParentBalance(updated, parentID)

\* ... WHERE id = ? AND balance >= ?
HasFunds_Always(p, amount) == TRUE

HasFunds(p, amount) == p.balance.value >= amount

\* One transaction, rolled back on every error return.
Database_SendKidMoney(db, parentID, kidID, amount) ==
    LET exists == {k \in db.kids : k.id = kidID /\ k.parent_id = parentID}
        affected == {p \in db.parents :
                        p.id = parentID /\ HasFunds(p, amount)}
        Debit(p) == [p EXCEPT !.balance = SqlAdd(@, -amount)]
        Credit(k) == [k EXCEPT !.balance = SqlAdd(@, amount)]
        moved == UpdateKids(UpdateParents(db, parentID, Debit), kidID, Credit)
        parentBal == (CHOOSE p \in moved.parents : p.id = parentID).balance
        kidBal == (CHOOSE k \in moved.kids : k.id = kidID).balance
    IN  IF exists = {} THEN Failed(db, "kid does not belong to parent")
        ELSE IF affected = {}
        THEN Failed(db, "insufficient funds or parent not found")
        ELSE IF ~ScanInt64(parentBal) \/ ~ScanInt64(kidBal)
        THEN Failed(db, ErrScanFloat)
        ELSE Found(moved, [parent_balance |-> parentBal.value,
                           kid_balance |-> kidBal.value])

\* util.GenerateShortID is drawn up to ten times until the INSERT passes.
\* id is the id of the draw that passed, Nil when all ten draws failed.
CreateParent(db, name, email, id) ==
    IF id = Nil \/ GetParentByID(db, id[1]) # {}
          \/ GetParentByEmail(db, email) # {}
    THEN DBFailed(db, "failed to generate unique id for parent")
    ELSE LET row == ParentRow(id[1], name, ToLower(email))
         IN  DBDone([db EXCEPT !.parents = @ \cup {row}], row)

\* name and wallet are optional; kids_list is not among the columns set.
UpdateParentByEmail(db, email, name, wallet) ==
    LET old == GetParentByEmail(db, email)
        new == {[p EXCEPT !.name = IF name # Nil THEN name[1] ELSE @,
                          !.wallet = IF wallet # Nil THEN wallet[1] ELSE @] :
                    p \in old}
    IN  IF old = {}
        THEN DBFailed(db, "sql: no rows in result set")
        ELSE DBDone([db EXCEPT !.parents = (@ \ old) \cup new],
                    CHOOSE p \in new : TRUE)

CreateChild(db, name, email, parentID, id) ==
    IF GetParentByID(db, parentID) = {}
    THEN DBFailed(db, "parent_id not found")
    ELSE IF id = Nil \/ {c \in db.children : c.id = id[1]} # {}
               \/ GetChildByEmail(db, email) # {}
    THEN DBFailed(db, "failed to generate unique id for child")
    ELSE LET child == ChildRow(id[1], name, ToLower(email), parentID, "")
             inserted == [db EXCEPT !.children = @ \cup {child}]
             listed == addChildToParentKidsListTx(inserted, parentID,
                                                  child.email, child.wallet)
         IN  IF listed.ok THEN DBDone(listed.db, child)
             ELSE DBFailed(db, "sql: no rows in result set")

\* One transaction: the child row is updated, then the kids_list entry is
\* moved (parent changed) or its wallet rewritten (wallet given).
UpdateChildByEmail(db, email, name, parentID, wallet) ==
    LET found == GetChildByEmail(db, email)
        existing == CHOOSE c \in found : TRUE
        changingParent == /\ parentID # Nil
                          /\ parentID[1] # ""
                          /\ parentID[1] # existing.parent_id
        out == [existing EXCEPT
                   !.name = IF name # Nil THEN name[1] ELSE @,
                   !.parent_id = IF changingParent THEN parentID[1] ELSE @,
                   !.wallet = IF wallet # Nil THEN wallet[1] ELSE @]
        updated == [db EXCEPT !.children = (@ \ found) \cup {out}]
        removed == removeChildFromParentKidsListTx(updated,
                       existing.parent_id, existing.email)
        added == addChildToParentKidsListTx(removed.db, parentID[1],
                     existing.email, out.wallet)
        rewritten == upsertChildInParentKidsListTx(updated,
                         existing.parent_id, existing.email, wallet[1])
    IN  IF found = {}
        THEN DBFailed(db, "sql: no rows in result set")
        ELSE IF changingParent /\ GetParentByID(db, parentID[1]) = {}
        THEN DBFailed(db, "parent_id not found")
        ELSE IF changingParent
        THEN IF removed.ok /\ added.ok THEN DBDone(added.db, out)
             ELSE DBFailed(db, "sql: no rows in result set")
        ELSE IF wallet # Nil
        THEN IF rewritten.ok THEN DBDone(rewritten.db, out)
             ELSE DBFailed(db, "sql: no rows in result set")
        ELSE DBDone(updated, out)

\* ------------------------------------------------ backend_mini, handlers
\* What a handler answers, and the database it leaves.
\* row is the JSON object written (optional), error the message of
\* writeError, served tells that the route's own handler ran.
HTTPReply(status, row, db) ==
    [status |-> status, row |-> row, error |-> "", db |-> db,
     served |-> TRUE]
HTTPError(status, msg, db) ==
    [status |-> status, row |-> Nil, error |-> msg, db |-> db,
     served |-> TRUE]

\* middleware.RequireBearer(token, next): pre-flight requests are answered
\* at once, then the Authorization header is compared, then next runs.
\* A request without the header has authorization "".
RequireBearer(token, req, db, next) ==
    IF req.method = "OPTIONS"
    THEN [HTTPReply(200, Nil, db) EXCEPT !.served = FALSE]
    ELSE IF req.authorization # "Bearer " \o token
    THEN [HTTPError(401, "unauthorized", db) EXCEPT !.served = FALSE]
    ELSE next

\* main: every route is registered behind the same token.
Token == "SonaBetaTestAPi"

\* POST /get_parent
GetParentHandler(db, req, id) ==
    LET found == GetParentByEmail(db, req.email)
        updated == UpdateParentByEmail(db, req.email, req.name, req.wallet)
        created == CreateParent(db, req.name[1], req.email, id)
    IN  IF req.method # "POST" THEN HTTPReply(405, Nil, db)
        ELSE IF Blank(req.email) THEN HTTPError(400, "email is required", db)
        ELSE IF found # {}
        THEN IF req.upd
             THEN IF updated.ok THEN HTTPReply(200, updated.row, updated.db)
                  ELSE HTTPError(500, updated.error, db)
             ELSE HTTPReply(200, Some(CHOOSE p \in found : TRUE), db)
        ELSE IF req.name # Nil /\ ~BlankText(req.name[1])
        THEN IF created.ok THEN HTTPReply(200, created.row, created.db)
             ELSE HTTPError(500, created.error, db)
        ELSE HTTPError(404, "not found", db)

\* POST /get_child
GetChildHandler(db, req, id) ==
    LET found == GetChildByEmail(db, req.email)
        updated == UpdateChildByEmail(db, req.email, req.name, req.parent_id,
                                      req.wallet)
        created == CreateChild(db, req.name[1], req.email, req.parent_id[1],
                               id)
    IN  IF req.method # "POST" THEN HTTPReply(405, Nil, db)
        ELSE IF Blank(req.email) THEN HTTPError(400, "email is required", db)
        ELSE IF found # {}
        THEN IF req.upd
             THEN IF updated.ok THEN HTTPReply(200, updated.row, updated.db)
                  ELSE HTTPError(400, updated.error, db)
             ELSE HTTPReply(200, Some(CHOOSE c \in found : TRUE), db)
        ELSE IF /\ req.name # Nil
                /\ req.parent_id # Nil
                /\ ~BlankText(req.name[1])
                /\ ~BlankText(req.parent_id[1])
        THEN IF created.ok THEN HTTPReply(200, created.row, created.db)
             ELSE HTTPError(400, created.error, db)
        ELSE HTTPError(400,
                 "for user creation you need all: email, name, parent_id", db)

\* ----------------------------------------------------- backend, handlers
\* writeJSON(w, status, v): the status, the object written and the
\* database the handler leaves; apiError{msg} is the object of an error.
writeJSON(status, row, db) ==
    [status |-> status, row |-> row, error |-> "", db |-> db]
apiError(status, msg, db) ==
    [status |-> status, row |-> Nil, error |-> msg, db |-> db]

\* A query parameter is optional text; a number is written as a decimal
\* literal, here the integer it denotes.  strconv.ParseInt rejects a
\* literal outside int64, and a parameter that is not a number is Nil.
parseInt64Query(val) ==
    IF val = Nil \/ val[1] > MaxInt64 \/ val[1] < MinInt64 THEN Nil ELSE val

parseStringQuery(val) == IF val = Some("") THEN Nil ELSE val

\* POST /register_parent?name=&email=
Server_RegisterParent(db, req) ==
    LET name == parseStringQuery(req.name)
        email == parseStringQuery(req.email)
        created == IF email # Nil
                   THEN Database_CreateParentWithEmail(db, name[1], email[1])
                   ELSE Database_CreateParent(db, name[1])
    IN  IF req.method # "POST" THEN apiError(405, "method not allowed", db)
        ELSE IF name = Nil THEN apiError(400, "missing name", db)
        ELSE IF ~created.ok THEN apiError(500, created.error, db)
        ELSE writeJSON(200, Some([parent_id |-> created.row[1].id]),
                       created.db)

\* POST /register_kid?name=&parent_id=
Server_RegisterKid(db, req) ==
    LET name == parseStringQuery(req.name)
        parentID == parseInt64Query(req.parent_id)
        created == Database_CreateKid(db, name[1], "", parentID[1])
    IN  IF req.method # "POST" THEN apiError(405, "method not allowed", db)
        ELSE IF name = Nil THEN apiError(400, "missing name", db)
        ELSE IF parentID = Nil THEN apiError(400, "missing parent_id", db)
        ELSE IF ~created.ok THEN apiError(500, created.error, db)
        ELSE writeJSON(200, Some([kid_id |-> created.row[1].id]), created.db)

\* POST /parent_topup?parent_id=&amount=
Server_ParentTopUp(db, req) ==
    LET parentID == parseInt64Query(req.parent_id)
        amount == parseInt64Query(req.amount)
        done == Database_TopUpParent(db, parentID[1], amount[1])
    IN  IF req.method # "POST" THEN apiError(405, "method not allowed", db)
        ELSE IF parentID = Nil THEN apiError(400, "missing parent_id", db)
        ELSE IF amount = Nil \/ amount[1] <= 0
        THEN apiError(400, "invalid amount", db)
        ELSE IF ~done.ok THEN apiError(500, done.error, done.db)
        ELSE writeJSON(200, Some([parent_balance |-> done.row[1]]), done.db)

\* POST /send_kid_money?parent_id=&kid_id=&amount=
Server_SendKidMoney(db, req) ==
    LET parentID == parseInt64Query(req.parent_id)
        kidID == parseInt64Query(req.kid_id)
        amount == parseInt64Query(req.amount)
        done == Database_SendKidMoney(db, parentID[1], kidID[1], amount[1])
    IN  IF req.method # "POST" THEN apiError(405, "method not allowed", db)
        ELSE IF parentID = Nil THEN apiError(400, "missing parent_id", db)
        ELSE IF kidID = Nil THEN apiError(400, "missing kid_id", db)
        ELSE IF amount = Nil \/ amount[1] <= 0
        THEN apiError(400, "invalid amount", db)
        ELSE IF ~done.ok THEN apiError(400, done.error, db)
        ELSE writeJSON(200, done.row, done.db)

\* GetOrCreateParentByEmail
Database_GetOrCreateParentByEmail(db, name, email) ==
    LET got == Database_GetParentByEmail(db, email)
        created == Database_CreateParentWithEmail(db, name, email)
    IN  IF got.ok \/ got.error # ErrNoRows THEN got
        ELSE IF ~created.ok THEN created
        ELSE Database_GetParentByID(created.db, created.row[1].id)

\* ecdsa.GenerateKey draws a fresh P-256 key; the public key DER is named
\* after the row it is generated for.
GenerateKey(table, id) == Some(<<table, id>>)

Database_SetParentHPKEKeys(db, parentID, pubDER) ==
    LET Keyed(p) == [p EXCEPT !.hpke_pub_der = pubDER]
    IN  UpdateParents(db, parentID, Keyed)

Database_SetKidHPKEKeys(db, kidID, pubDER) ==
    LET Keyed(k) == [k EXCEPT !.hpke_pub_der = pubDER]
    IN  UpdateKids(db, kidID, Keyed)

Database_UpdateParentGridIDs(db, parentID, gridUserID, gridWalletID) ==
    LET Linked(p) == [p EXCEPT !.grid_user_id = Some(gridUserID),
                               !.grid_wallet_id = Some(gridWalletID)]
    IN  UpdateParents(db, parentID, Linked)

\* The Grid URLs and the API key are taken to be configured.
\* The Grid part of /get_user, the same for both user types: grid is the
\* answer to the create-account call and auth the answer to the
\* auth-initiate call, Nil when the call itself failed.  The database is
\* not touched any more.
GridSignup(db, grid, auth) ==
    LET shouldAuth == grid[1].status = 409
                      \/ (grid[1].status >= 300 /\ grid[1].status < 400)
                      \/ (grid[1].status >= 400 /\ grid[1].exists)
    IN  IF grid = Nil THEN apiError(502, "grid request failed", db)
        ELSE IF ~shouldAuth
        THEN writeJSON(grid[1].status, Some([user_type |-> "new"]), db)
        ELSE IF auth = Nil THEN apiError(502, "grid auth request failed", db)
        ELSE writeJSON(auth[1].status, Some([user_type |-> "existing"]), db)

\* GET /get_user, user_type=parent
GetUserParent(db, name, email, grid, auth) ==
    LET got == Database_GetOrCreateParentByEmail(db, name, email[1])
        p == got.row[1]
        keyed == IF p.hpke_pub_der # Nil THEN got.db
                 ELSE Database_SetParentHPKEKeys(got.db, p.id,
                          GenerateKey("parents", p.id))
    IN  IF email = Nil THEN apiError(400, "missing email", db)
        ELSE IF ~got.ok THEN apiError(500, got.error, got.db)
        ELSE GridSignup(keyed, grid, auth)

\* GET /get_user, user_type=kid or child
GetUserKid(db, name, email, parentID, grid, auth) ==
    LET parent == Database_GetParentByID(db, parentID[1])
        first == Database_GetKidByNameAndParent(db, name, parentID[1])
        created == Database_CreateKid(db, name, email[1], parentID[1])
        got == IF first.error # ErrNoRows THEN first
               ELSE Database_GetKidByNameAndParent(created.db, name,
                                                   parentID[1])
        k == got.row[1]
        Mailed(r) == [r EXCEPT !.email = email]
        mailed == IF k.email # Some("") THEN got.db
                  ELSE UpdateKids(got.db, k.id, Mailed)
        keyed == IF k.hpke_pub_der # Nil THEN mailed
                 ELSE Database_SetKidHPKEKeys(mailed, k.id,
                          GenerateKey("kids", k.id))
    IN  IF email = Nil THEN apiError(400, "missing email", db)
        ELSE IF parentID = Nil THEN apiError(400, "missing parent_id", db)
        ELSE IF ~parent.ok
        THEN IF parent.error = ErrNoRows
             THEN apiError(400, "parent not found", db)
             ELSE apiError(500, parent.error, db)
        ELSE IF first.error = ErrNoRows /\ ~created.ok
        THEN apiError(500, created.error, db)
        ELSE IF ~got.ok THEN apiError(500, got.error, got.db)
        ELSE GridSignup(keyed, grid, auth)

\* GET /get_user?user_type=&name=&email=&parent_id=  (the user types of
\* the samples are lower-case already)
Server_GetUser(db, req, grid, auth) ==
    LET userType == parseStringQuery(req.user_type)
        name == parseStringQuery(req.name)
        email == parseStringQuery(req.email)
        parentID == parseInt64Query(req.parent_id)
    IN  IF req.method # "GET" THEN apiError(405, "method not allowed", db)
        ELSE IF userType = Nil THEN apiError(400, "missing user_type", db)
        ELSE IF name = Nil THEN apiError(400, "missing name", db)
        ELSE IF userType[1] = "parent"
        THEN GetUserParent(db, name[1], email, grid, auth)
        ELSE IF userType[1] \in {"kid", "child"}
        THEN GetUserKid(db, name[1], email, parentID, grid, auth)
        ELSE apiError(400, "invalid user_type", db)

\* GET /get_child?name=&parent_id=
Server_GetChild(db, req) ==
    LET name == parseStringQuery(req.name)
        parentID == parseInt64Query(req.parent_id)
        parent == Database_GetParentByID(db, parentID[1])
        created == Database_CreateKid(db, name[1], "", parentID[1])
        kid == Database_GetKidByID(created.db, created.row[1].id)
        byName == Database_GetKidByName(db, name[1])
    IN  IF req.method # "GET" THEN apiError(405, "method not allowed", db)
        ELSE IF name = Nil THEN apiError(400, "missing name", db)
        ELSE IF parentID # Nil
        THEN IF ~parent.ok
             THEN IF parent.error = ErrNoRows
                  THEN apiError(400, "parent not found", db)
                  ELSE apiError(500, parent.error, db)
             ELSE IF ~created.ok THEN apiError(500, created.error, db)
             ELSE IF ~kid.ok THEN apiError(500, kid.error, created.db)
             ELSE writeJSON(200, kid.row, created.db)
        ELSE IF byName.ok THEN writeJSON(200, byName.row, db)
        ELSE IF byName.error = ErrNoRows THEN writeJSON(200, Nil, db)
        ELSE apiError(500, byName.error, db)

\* POST /grid/otp_verify {"email", "otp_code"}: body is Nil when it is
\* not JSON; grid is Grid's answer, Nil when the call itself failed, and
\* data the "data" object of its body when that has one.  forwarded is
\* the payload posted to Grid, if any.
Forwarded(reply, payload) ==
    [status |-> reply.status, error |-> reply.error, db |-> reply.db,
     forwarded |-> payload]

Server_VerifyGridOTP(db, req, grid) ==
    LET vr == req.body[1]
        got == Database_GetParentByEmail(db, vr.email)
        p == got.row[1]
        payload == [email |-> vr.email, otp_code |-> vr.otp_code,
                    encryption_public_key |-> Base64(p.hpke_pub_der[1])]
        data == grid[1].data
        linked == IF data # Nil
                     /\ (data[1].grid_user_id # "" \/ data[1].address # "")
                  THEN Database_UpdateParentGridIDs(db, p.id,
                           data[1].grid_user_id, data[1].address)
                  ELSE db
    IN  IF req.method # "POST"
        THEN Forwarded(apiError(405, "method not allowed", db), Nil)
        ELSE IF req.body = Nil
        THEN Forwarded(apiError(400, "invalid json", db), Nil)
        ELSE IF vr.email = "" \/ vr.otp_code = ""
        THEN Forwarded(apiError(400, "email and otp_code required", db), Nil)
        ELSE IF ~got.ok
        THEN Forwarded(apiError(400, "parent not found", db), Nil)
        ELSE IF p.hpke_pub_der = Nil
        THEN Forwarded(apiError(500, "public key missing", db), Nil)
        ELSE IF grid = Nil
        THEN Forwarded(apiError(502, "grid request failed", db),
                       Some(payload))
        ELSE Forwarded(writeJSON(grid[1].status, Nil, linked), Some(payload))

\* ------------------------------------------------------------------- state
VARIABLES
    keychain,       \* KeychainStorage.shared, by key
    userDefaults,   \* UserDefaults entry grid_decrypted_authorization_key_shadow
    session,        \* SessionManager.shared.session
    mainQueue,      \* session assignments queued on DispatchQueue.main
    send,           \* SendMoneyView: @State and the locals of sendMoney
    calc,           \* one call of a codec or builder function: its name,
                    \* its argument and, once it returned, its result
    miniDB,         \* backend_mini: the parents and children tables
    backendDB       \* backend: the parents, kids and users tables

vars == <<keychain, userDefaults, session, mainQueue, send, calc, miniDB,
          backendDB>>

\* The two servers' databases; the app's own steps leave them alone.
servers == <<miniDB, backendDB>>

Cur == Store(keychain, userDefaults, mainQueue)

Commit(st) ==
    /\ keychain' = st.kc
    /\ userDefaults' = st.ud
    /\ mainQueue' = st.q

\* The JSON bodies of the prepare and submit requests.
PrepareBody(transaction, signers, payer) ==
    [transaction |-> transaction, transaction_signers |-> signers,
     fee_config |-> [currency |-> "sol", payer_address |-> payer]]

SubmitBody(transaction, sigs) ==
    [transaction |-> transaction,
     kms_payloads |-> [i \in 1..Len(sigs) |->
                         [provider |-> sigs[i].provider,
                          signature |-> sigs[i].signatureBase64]]]

\* pc is the place sendMoney is at and request the body of the request it
\* is waiting on.  fromAddress .. submit are the locals of sendMoney; they
\* are gone when it returns.  The rest records what the attempt did: the
\* stages it went through, where it threw, the HTTP status and body of the
\* responses it got, and how often it sent prepare, called the signer and
\* sent submit.
NewSend ==
    [pc |-> "idle", isSending |-> FALSE, errorMessage |-> Nil,
     request |-> Nil,
     fromAddress |-> Nil, toAddress |-> Nil, result |-> Nil,
     prepare |-> Nil, kmsSignatures |-> Nil, submit |-> Nil,
     trail |-> <<>>, failedAt |-> Nil, prepareHTTP |-> Nil,
     submitHTTP |-> Nil, prepareCalls |-> 0, signerCalls |-> 0,
     submitCalls |-> 0, onSuccess |-> 0]

\* sendMoney returns: the deferred isSending = false, the locals dropped.
Return(sm) ==
    [sm EXCEPT !.isSending = FALSE, !.request = Nil, !.fromAddress = Nil,
               !.toAddress = Nil, !.result = Nil, !.prepare = Nil,
               !.kmsSignatures = Nil, !.submit = Nil]

\* A catch block that sends the prepare request again.
Catch_ResendsPrepare(sm, stage, err) ==
    IF stage = "prepare" /\ sm.prepareCalls < 2
    THEN [sm EXCEPT !.pc = "prepare",
                    !.request = Some(PrepareBody(sm.result[1], Nil,
                                                 sm.fromAddress[1])),
                    !.prepareCalls = @ + 1]
    ELSE Return([sm EXCEPT !.pc = "Failed", !.errorMessage = Some(err),
                           !.failedAt = Some(stage),
                           !.trail = Append(@, "Failed")])

\* The catch block of sendMoney.
Catch(sm, stage, err) ==
    Return([sm EXCEPT !.pc = "Failed", !.errorMessage = Some(err),
                      !.failedAt = Some(stage),
                      !.trail = Append(@, "Failed")])

\* The status line and body of a response, as the attempt saw them.
HTTPSeen(resp) ==
    [transport |-> resp.transport, status |-> resp.status,
     decodable |-> resp.decodable, body |-> resp.body]

\* No codec call is being looked at.
NoCall == [op |-> "none", in |-> Nil, out |-> Nil]

Init ==
    /\ keychain = EmptyKeychain
    /\ userDefaults = Nil
    /\ session = Nil
    /\ mainQueue = <<>>
    /\ send = NewSend
    /\ miniDB = EmptyMiniDB
    /\ backendDB = EmptyBackendDB
    /\ calc = NoCall

\* ------------------------------------------------------------ main queue
\* DispatchQueue.main.async { self.session = ... }
DrainMain ==
    /\ mainQueue # <<>>
    /\ session' = Head(mainQueue)
    /\ mainQueue' = Tail(mainQueue)
    /\ UNCHANGED <<servers, keychain, userDefaults, send, calc>>

\* ------------------------------------------------------------- onboarding
\* Storing whatever 32-byte candidate the plaintext starts with when the
\* extraction fails.
storeUnwrappedKey_StoresOnFailure(st, enc) ==
    IF enc = Nil THEN st
    ELSE LET key == decryptAuthorizationKey(st, enc[1]) IN
         IF ~key.ok THEN st
         ELSE LET raw32 == extractRawP256PrivateKey(key.value[1]) IN
              IF raw32 # Nil THEN setDecryptedAuthorizationKey(st, raw32[1])
              ELSE IF key.value[1] = <<>> THEN st
              ELSE setDecryptedAuthorizationKey(st, key.value[1][1].scalar)

\* submitOTP, lines 278-283: store the key when unwrap and extraction
\* both succeed.
storeUnwrappedKey(st, enc) ==
    IF enc = Nil THEN st
    ELSE LET key == decryptAuthorizationKey(st, enc[1]) IN
         IF ~key.ok THEN st
         ELSE LET raw32 == extractRawP256PrivateKey(key.value[1]) IN
              IF raw32 = Nil THEN st
              ELSE setDecryptedAuthorizationKey(st, raw32[1])

\* ParentOnboardingView.submitOTP / ChildOnboardingView.submitOTP, with the
\* verify request answered by resp.  The setters all read the session as it
\* was when the task resumed.
submitOTP(st, sess, resp, id) ==
    LET st0 == publicKeyDERBase64(ensureKeysPresent(st, id), id)
        result == verify(resp)
    IN  IF ~result.ok THEN st0
        ELSE LET raw == result.value[1]
                 st1 == setAddress(st0, sess, Some(raw.address))
                 st2 == setGridUserId(st1, sess, raw.gridUserId)
                 st3 == setGridRawResponse(st2, raw)
                 st4 == extractAndStorePrivyAccessToken(st3, raw)
                 st5 == storeUnwrappedKey(st4, firstEncryptedKey(raw))
             IN  setNameEmail(st5, sess, "N1", "E1")

SubmitOTP ==
    \E resp \in VerifyResponses, id \in HpkeKeyIds :
        /\ Len(mainQueue) < MaxQueue
        /\ Commit(submitOTP(Cur, session, resp, id))
        /\ UNCHANGED <<servers, session, send, calc>>

\* The parent or kid record fetched after onboarding.
SetUID ==
    /\ Len(mainQueue) < MaxQueue
    /\ Commit(setUID(Cur, session, "U1"))
    /\ UNCHANGED <<servers, session, send, calc>>

\* Settings, saveEdits.
SetNameEmail ==
    /\ Len(mainQueue) < MaxQueue
    /\ Commit(setNameEmail(Cur, session, "N1", "E1"))
    /\ UNCHANGED <<servers, session, send, calc>>

\* Settings "Clear Session" and signOut.
Clear ==
    /\ Len(mainQueue) < MaxQueue
    /\ Commit(clear(Cur))
    /\ UNCHANGED <<servers, session, send, calc>>

\* Settings pull-to-refresh: reload, ensureAddressFromStoredGrid, and a
\* read of the decrypted key.
Reload ==
    /\ Len(mainQueue) < MaxQueue
    /\ Commit(ensureAddressFromStoredGrid(reload(Cur), session))
    /\ UNCHANGED <<servers, session, send, calc>>

\* ---------------------------------------------------------------- sendMoney
\* sendMoney up to the first await of buildTransfer.  The button is
\* disabled while isSending or while the amount does not parse, and the
\* error alert is dismissed before the button can be pressed again.
SendMoney ==
    \E childWalletAddress \in {Nil} \cup {Some(w) : w \in ChildWallets},
       cachedParentWallet \in {Nil, Some("A1")} :
        /\ ~send.isSending
        /\ Len(mainQueue) < MaxQueue
        /\ LET sm == [NewSend EXCEPT !.isSending = TRUE,
                                     !.trail = <<"Building">>]
               sessAddr == SessionField(session, "address")
               fromAddress == IF sessAddr # Nil THEN sessAddr
                              ELSE cachedParentWallet
           IN  IF childWalletAddress = Nil
               THEN /\ send' = Catch(sm, "build", ChildWalletMissing)
                    /\ UNCHANGED <<servers, keychain, userDefaults, mainQueue>>
               ELSE /\ Commit(IF sessAddr = Nil
                              THEN ensureAddressFromStoredGrid(Cur, session)
                              ELSE Cur)
                    /\ send' = IF fromAddress = Nil
                               THEN Catch(sm, "build", ParentWalletMissing)
                               ELSE [sm EXCEPT
                                       !.pc = "getLatestBlockhash",
                                       !.toAddress = childWalletAddress,
                                       !.fromAddress = fromAddress]
        /\ UNCHANGED <<servers, session, calc>>

\* SolanaRPC.getLatestBlockhash returns; buildTransfer finishes and
\* GridTransfers.prepare sends its request.
GetLatestBlockhashReturn ==
    \E hash \in {Nil} \cup {Some(h) : h \in Blockhashes} :
        /\ send.pc = "getLatestBlockhash"
        /\ LET built == buildTransfer(send.fromAddress[1], send.toAddress[1],
                                      hash[1])
           IN  send' =
                 IF hash = Nil
                 THEN Catch(send, "build", URLErrorBadServerResponse)
                 ELSE IF ~built.ok
                 THEN Catch(send, "build", built.error[1])
                 ELSE [send EXCEPT
                         !.pc = "prepare",
                         !.result = built.value,
                         !.request = Some(PrepareBody(built.value[1], Nil,
                                                      send.fromAddress[1])),
                         !.prepareCalls = @ + 1]
        /\ UNCHANGED <<servers, keychain, userDefaults, session, mainQueue, calc>>

\* sendMoney going from prepare straight to submit.
PrepareReturn_SkipsSigner ==
    \E resp \in PrepareResponses :
        /\ send.pc = "prepare"
        /\ LET r == prepare(resp)
               got == [send EXCEPT !.prepareHTTP = Some(HTTPSeen(resp)),
                                   !.request = Nil]
           IN  send' =
                 IF ~r.ok
                 THEN Catch(got, "prepare", r.error[1])
                 ELSE [got EXCEPT !.pc = "submitCall",
                                  !.prepare = r.value,
                                  !.kmsSignatures = Some(<<>>),
                                  !.trail = Append(@, "Prepared")]
        /\ UNCHANGED <<servers, keychain, userDefaults, session, mainQueue, calc>>

\* The prepare request returns.
PrepareReturn ==
    \E resp \in PrepareResponses :
        /\ send.pc = "prepare"
        /\ LET r == prepare(resp)
               got == [send EXCEPT !.prepareHTTP = Some(HTTPSeen(resp)),
                                   !.request = Nil]
           IN  send' =
                 IF ~r.ok
                 THEN Catch(got, "prepare", r.error[1])
                 ELSE [got EXCEPT !.pc = "signKMS",
                                  !.prepare = r.value,
                                  !.trail = Append(@, "Prepared")]
        /\ UNCHANGED <<servers, keychain, userDefaults, session, mainQueue, calc>>

\* sendMoney lines 265-266: refresh the key, then sign.
SignKMS ==
    /\ send.pc = "signKMS"
    /\ LET st1 == refreshDecryptedAuthorizationKeyIfPossible(Cur)
           signed == signKMSpayloadsIfNeeded(st1, send.prepare[1])
           called == [send EXCEPT !.signerCalls = @ + 1]
       IN  /\ Commit(signed.st)
           /\ send' =
                IF ~signed.r.ok
                THEN Catch(called, "sign", signed.r.error[1])
                ELSE [called EXCEPT !.pc = "submitCall",
                                    !.kmsSignatures = signed.r.value,
                                    !.trail = Append(@, "Signed")]
    /\ UNCHANGED <<servers, session, calc>>

\* submit sent with the locally built transaction.
SubmitCall_SendsLocalTx ==
    /\ send.pc = "submitCall"
    /\ send' = [send EXCEPT
                  !.pc = "submit",
                  !.request = Some(SubmitBody(send.result[1],
                                              send.kmsSignatures[1])),
                  !.submitCalls = @ + 1,
                  !.trail = Append(@, "Submitted")]
    /\ UNCHANGED <<servers, keychain, userDefaults, session, mainQueue, calc>>

\* GridTransfers.submit sends its request.
SubmitCall ==
    /\ send.pc = "submitCall"
    /\ send' = [send EXCEPT
                  !.pc = "submit",
                  !.request = Some(SubmitBody(send.prepare[1].transaction,
                                              send.kmsSignatures[1])),
                  !.submitCalls = @ + 1,
                  !.trail = Append(@, "Submitted")]
    /\ UNCHANGED <<servers, keychain, userDefaults, session, mainQueue, calc>>

\* The submit request returns; on success onSuccess() is called.
SubmitReturn ==
    \E resp \in SubmitResponses :
        /\ send.pc = "submit"
        /\ LET r == submit(resp)
               got == [send EXCEPT !.submitHTTP = Some(resp)]
           IN  send' =
                 IF ~r.ok
                 THEN Catch(got, "submit", r.error[1])
                 ELSE Return([got EXCEPT !.pc = "Confirmed",
                                         !.onSuccess = @ + 1,
                                         !.trail = Append(@, "Confirmed")])
        /\ UNCHANGED <<servers, keychain, userDefaults, session, mainQueue, calc>>

Next ==
    \/ SubmitOTP
    \/ Clear
    \/ Reload
    \/ DrainMain
    \/ SendMoney
    \/ GetLatestBlockhashReturn
    \/ PrepareReturn
    \/ SignKMS
    \/ SubmitCall
    \/ SubmitReturn

Spec == Init /\ [][Next]_vars

\* The session operations alone, with the two setters no send attempt calls.
NextSession ==
    \/ SubmitOTP
    \/ SetUID
    \/ SetNameEmail
    \/ Clear
    \/ Reload
    \/ DrainMain

SpecSession == Init /\ [][NextSession]_vars

\* ------------------------------------------------------- a second account
\* The verify response of account "A2", with its authorization key sealed
\* to this device.
OtherAccountRaw ==
    GridRaw("A2", Some("G2"), "nested",
            EncBlob(TRUE, "x963", TRUE, 1, TRUE,
                    <<Candidate(3, TRUE, "k3")>>), Some("tok"))

\* submitOTP for account "A2" on the same device.
SubmitOTPOtherAccount ==
    \E id \in HpkeKeyIds :
        /\ Len(mainQueue) < MaxQueue
        /\ Commit(submitOTP(Cur, session,
                            HTTPResponse(TRUE, 200, TRUE, OtherAccountRaw, ""),
                            id))
        /\ UNCHANGED <<servers, session, send, calc>>

NextAccounts ==
    \/ SubmitOTP
    \/ SubmitOTPOtherAccount
    \/ Clear
    \/ Reload
    \/ DrainMain
    \/ SendMoney
    \/ GetLatestBlockhashReturn
    \/ PrepareReturn
    \/ SignKMS
    \/ SubmitCall
    \/ SubmitReturn

SpecAccounts == Init /\ [][NextAccounts]_vars

\* ------------------------------------------------- the device HPKE keypair
\* The keypairs P256.KeyAgreement.PrivateKey() may draw, one for each call
\* of generateAndStoreKeyPair.
MaxKeypairs == 2
KeypairDraws == 1..MaxKeypairs

\* HPKEManager.ensureKeysPresent called on its own.
EnsureKeysPresent ==
    \E id \in KeypairDraws :
        /\ Commit(ensureKeysPresent(Cur, id))
        /\ UNCHANGED <<servers, session, send, calc>>

\* HPKEManager.publicKeyDERBase64 called on its own.
PublicKeyDERBase64 ==
    \E id \in KeypairDraws :
        /\ Commit(publicKeyDERBase64(Cur, id))
        /\ UNCHANGED <<servers, session, send, calc>>

\* HPKEManager.decryptAuthorizationKey called on its own: it reads the
\* private half and returns or throws.
DecryptAuthorizationKey ==
    \E blob \in EncBlobs :
        /\ calc' = [op |-> "decryptAuthorizationKey", in |-> Some(blob),
                    out |-> Some(decryptAuthorizationKey(Cur, blob))]
        /\ UNCHANGED <<servers, keychain, userDefaults, session, mainQueue, send>>

NextHpke ==
    \/ EnsureKeysPresent
    \/ PublicKeyDERBase64
    \/ DecryptAuthorizationKey
    \/ SubmitOTP
    \/ Clear
    \/ DrainMain

SpecHpke == Init /\ [][NextHpke]_vars

\* ------------------------------------------------- codec and builder calls
\* The arguments the functions are called with.
MaxBytes == 3
ByteSamples == {0, 1, 57, 58, 255}
ByteStrings == UNION {[1..n -> ByteSamples] : n \in 0..MaxBytes}

MaxShortVec == 300
ShortVecInputs == (0..MaxShortVec) \cup {16383, 16384, 2097151, 2097152}

MaxAccounts == 2
MaxInstructions == 2
SampleKeys == {<<7, 7>>, <<9, 9>>}
SampleInstructions ==
    {SolanaLegacyInstruction(programId, accounts, <<2, 0, 0, 0>>) :
        programId \in SampleKeys, accounts \in {<<>>, <<0, 1>>}}
SampleTransactions ==
    {SolanaLegacyTransaction(accountKeys, <<5, 5>>, instructions,
                             numRequiredSignatures, 0, 1) :
        accountKeys \in UNION {[1..n -> SampleKeys] : n \in 0..MaxAccounts},
        instructions \in
            UNION {[1..n -> SampleInstructions] : n \in 0..MaxInstructions},
        numRequiredSignatures \in 0..2}

SampleAddresses ==
    {SystemProgramAddress, <<1>>, <<2, 3>>, <<0, 5>>, <<NotInAlphabet>>}
SampleBlockhashes == {<<4>>, <<NotInAlphabet, 4>>}
SampleLamports == {1, 1000000000}

\* A call that has not returned yet.
Call(op, in) == [op |-> op, in |-> Some(in), out |-> Nil]

Base58Calls == {Call("Base58", data) : data \in ByteStrings}
EncodeShortVecCalls == {Call("encodeShortVec", len) : len \in ShortVecInputs}
SerializeUnsignedCalls ==
    {Call("serializeUnsigned", tx) : tx \in SampleTransactions}
BuildTransferCalls ==
    {Call("buildTransfer",
          [fromAddress |-> fromAddress, toAddress |-> toAddress,
           recentBlockhash |-> recentBlockhash, lamports |-> lamports]) :
        fromAddress \in SampleAddresses, toAddress \in SampleAddresses,
        recentBlockhash \in SampleBlockhashes, lamports \in SampleLamports}

\* SHA-256 of the seeds of a wallet and a mint, by bump: any digests at
\* the sampled bumps, one kind of digest at all the others.
MaxSampledBumps == 2
SampledBumps == ((FirstBump - MaxSampledBumps + 1) .. FirstBump) \cup {1}
DigestKinds == BOOLEAN \X BOOLEAN
Sha256Tables ==
    {[bump \in 1..FirstBump |->
        IF bump \in SampledBumps
        THEN Digest(bump, at[bump][1], at[bump][2])
        ELSE Digest(bump, rest[1], rest[2])] :
        at \in [SampledBumps -> DigestKinds], rest \in DigestKinds}
DeriveCalls ==
    {Call("deriveAssociatedTokenAddress", sha256) : sha256 \in Sha256Tables}

\* JSON values: leaves, the dictionaries over two keys in either iteration
\* order, and around them up to MaxJSONDepth - 1 further levels of
\* dictionary and array.
MaxJSONDepth == 2
JSONLeaves == {JSONNumber(1), JSONNumber(2), JSONString(<<97, 34>>)}
KeyA == <<97>>
KeyB == <<98>>
Pair(k, v) == [k |-> k, v |-> v]
RECURSIVE JSONAtDepth(_)
JSONAtDepth(depth) ==
    IF depth = 1
    THEN {JSONDict(<<>>)}
         \cup {JSONDict(<<Pair(k, v)>>) :
                 k \in {KeyA, KeyB}, v \in JSONLeaves}
         \cup {JSONDict(<<Pair(KeyA, v), Pair(KeyB, w)>>) :
                 v \in JSONLeaves, w \in JSONLeaves}
         \cup {JSONDict(<<Pair(KeyB, w), Pair(KeyA, v)>>) :
                 v \in JSONLeaves, w \in JSONLeaves}
    ELSE LET inner == JSONAtDepth(depth - 1)
         IN  {JSONDict(<<Pair(KeyA, JSONNumber(1)), Pair(KeyB, v)>>) :
                 v \in inner}
             \cup {JSONDict(<<Pair(KeyB, v), Pair(KeyA, JSONNumber(1))>>) :
                     v \in inner}
             \cup {JSONArray(<<v>>) : v \in inner}
JSONValues == JSONLeaves \cup UNION {JSONAtDepth(d) : d \in 1..MaxJSONDepth}
CanonicalStringCalls == {Call("canonicalString", v) : v \in JSONValues}

\* Encapsulated keys: DER in the shape of a SubjectPublicKeyInfo, with
\* lengths in short and long form (at most two length bytes), right and
\* wrong, and up to MaxCut bytes cut off the end; and the beginnings of one
\* well-formed key.
MaxCut == 2
X963Point(first) == [i \in 1..X963Len |-> IF i = 1 THEN first ELSE 7]
AlgorithmSamples ==
    {<<0>>, <<2, 6, 1>>, <<129, 2, 6, 1>>, <<128>>, <<5, 6, 1>>}
BitStringSamples ==
    {len \o <<unusedBits>> \o content :
        len \in {<<0>>, <<66>>, <<129, 66>>, <<65>>, <<67>>},
        unusedBits \in {0, 1},
        content \in {X963Point(4), X963Point(3), <<>>}}
SPKISamples ==
    {<<48>> \o seqLen \o <<48>> \o alg \o <<3>> \o bits :
        seqLen \in {<<89>>, <<129, 89>>},
        alg \in AlgorithmSamples, bits \in BitStringSamples}
WellFormedSPKI ==
    <<48, 89, 48, 2, 6, 1, 3, 66, 0>> \o X963Point(4)
EncapsulatedKeys ==
    {SubSeq(der, 1, Len(der) - cut) : der \in SPKISamples, cut \in 0..MaxCut}
    \cup {SubSeq(WellFormedSPKI, 1, n) : n \in 0..9}
X963Calls == {Call("x963FromSPKIDER", der) : der \in EncapsulatedKeys}

InitCodec ==
    /\ keychain = EmptyKeychain
    /\ userDefaults = Nil
    /\ session = Nil
    /\ mainQueue = <<>>
    /\ send = NewSend
    /\ miniDB = EmptyMiniDB
    /\ backendDB = EmptyBackendDB
    /\ \/ calc \in Base58Calls
       \/ calc \in EncodeShortVecCalls
       \/ calc \in SerializeUnsignedCalls
       \/ calc \in BuildTransferCalls
       \/ calc \in DeriveCalls
       \/ calc \in CanonicalStringCalls
       \/ calc \in X963Calls

Pending(op) == calc.op = op /\ calc.out = Nil
Arg == calc.in[1]

\* Base58.encode(data), then Base58.decode of the string it returned.
CallBase58 ==
    /\ Pending("Base58")
    /\ LET string == Base58_encode(Arg)
       IN  calc' = [calc EXCEPT !.out =
                      Some([string |-> string,
                            decoded |-> Base58_decode(string)])]
    /\ UNCHANGED <<servers, keychain, userDefaults, session, mainQueue, send>>

CallEncodeShortVec ==
    /\ Pending("encodeShortVec")
    /\ calc' = [calc EXCEPT !.out = Some(encodeShortVec(Arg))]
    /\ UNCHANGED <<servers, keychain, userDefaults, session, mainQueue, send>>

\* serializeUnsigned does not throw: what the caller gets is always Data.
CallSerializeUnsigned ==
    /\ Pending("serializeUnsigned")
    /\ calc' = [calc EXCEPT !.out = Some(Returned(serializeUnsigned(Arg)))]
    /\ UNCHANGED <<servers, keychain, userDefaults, session, mainQueue, send>>

CallBuildTransfer ==
    /\ Pending("buildTransfer")
    /\ calc' = [calc EXCEPT !.out =
                  Some(buildTransferTx(Arg.fromAddress, Arg.toAddress,
                                       Arg.recentBlockhash, Arg.lamports))]
    /\ UNCHANGED <<servers, keychain, userDefaults, session, mainQueue, send>>

\* deriveAssociatedTokenAddress does not throw: the caller always gets a
\* pair.
CallDeriveAssociatedTokenAddress ==
    /\ Pending("deriveAssociatedTokenAddress")
    /\ calc' = [calc EXCEPT !.out =
                  Some(Returned(deriveAssociatedTokenAddress(Arg)))]
    /\ UNCHANGED <<servers, keychain, userDefaults, session, mainQueue, send>>

CallCanonicalString ==
    /\ Pending("canonicalString")
    /\ calc' = [calc EXCEPT !.out = Some(canonicalString(Arg))]
    /\ UNCHANGED <<servers, keychain, userDefaults, session, mainQueue, send>>

CallX963FromSPKIDER ==
    /\ Pending("x963FromSPKIDER")
    /\ calc' = [calc EXCEPT !.out = Some(x963FromSPKIDER(Arg))]
    /\ UNCHANGED <<servers, keychain, userDefaults, session, mainQueue, send>>

NextCodec ==
    \/ CallBase58
    \/ CallEncodeShortVec
    \/ CallSerializeUnsigned
    \/ CallBuildTransfer
    \/ CallDeriveAssociatedTokenAddress
    \/ CallCanonicalString
    \/ CallX963FromSPKIDER

SpecCodec == InitCodec /\ [][NextCodec]_vars

\* ================================================================= claims
AuthKey == getDecryptedAuthorizationKey(Cur)
Payloads(prepareData) ==
    IF prepareData.kms_payloads = Nil THEN <<>>
    ELSE prepareData.kms_payloads[1]
Stages == <<"Building", "Prepared", "Signed", "Submitted", "Confirmed">>
IsPrefix(p, q) == Len(p) <= Len(q) /\ \A i \in 1..Len(p) : p[i] = q[i]
PrepareRefused ==
    /\ send.prepareHTTP # Nil
    /\ send.prepareHTTP[1].transport
    /\ ~Is2xx(send.prepareHTTP[1].status)
PrepareAccepted ==
    /\ send.prepareHTTP # Nil
    /\ send.prepareHTTP[1].transport
    /\ Is2xx(send.prepareHTTP[1].status)
SubmitAccepted ==
    /\ send.submitHTTP # Nil
    /\ send.submitHTTP[1].transport
    /\ Is2xx(send.submitHTTP[1].status)
SubmitRefused ==
    /\ send.submitHTTP # Nil
    /\ send.submitHTTP[1].transport
    /\ ~Is2xx(send.submitHTTP[1].status)

\* C1: when prepare gets a non-2xx response the attempt ends in Failed at
\* stage "prepare"; the signer is never called and submit is never sent in
\* that attempt.
C1_PrepareFailureEndsAttempt ==
    PrepareRefused =>
        /\ send.pc = "Failed"
        /\ send.failedAt = Some("prepare")
        /\ send.signerCalls = 0
        /\ send.submitCalls = 0
        /\ send.onSuccess = 0

C1_Witness ==
    /\ send.pc = "Failed"
    /\ PrepareRefused
    /\ send.prepareHTTP[1].status = 500

\* C2: an attempt goes only forward through Building, Prepared, Signed,
\* Submitted and then Confirmed, or ends in Failed from a stage before
\* Confirmed; the signer runs only after a 2xx prepare response, submit is
\* sent only after the signer returned its list, success is reported only
\* after submit returned.
C2_ForwardOnly ==
    LET t == send.trail
        failed == t # <<>> /\ t[Len(t)] = "Failed"
        body == IF failed THEN SubSeq(t, 1, Len(t) - 1) ELSE t
    IN  /\ IsPrefix(body, Stages)
        /\ failed => (body # <<>> /\ Len(body) < Len(Stages))
        /\ failed <=> send.pc = "Failed"
        /\ send.pc = "signKMS" => body = SubSeq(Stages, 1, 2)
        /\ send.pc = "submitCall" => body = SubSeq(Stages, 1, 3)
        /\ send.pc = "submit" => body = SubSeq(Stages, 1, 4)
        /\ send.pc = "Confirmed" <=> body = Stages
        /\ send.signerCalls > 0 => (PrepareAccepted /\ Len(body) >= 2)
        /\ send.submitCalls > 0 => (send.signerCalls = 1 /\ Len(body) >= 4)
        /\ Len(body) >= 3 => send.signerCalls = 1
        /\ send.onSuccess > 0 =>
             (send.submitCalls = 1 /\ send.submitHTTP # Nil /\ body = Stages)

C2_Witness == send.pc = "Confirmed" /\ send.trail = Stages

\* C3: onSuccess is called only for a 2xx submit response that contains a
\* transaction signature; a 2xx response with a null transaction_signature
\* and every non-2xx response end the attempt in Failed.
C3_ConfirmedOnlyWithSignature ==
    /\ send.onSuccess > 0 =>
         (SubmitAccepted
          /\ send.submitHTTP[1].data.transaction_signature # Nil)
    /\ (send.submitHTTP # Nil
        /\ ~(SubmitAccepted
             /\ send.submitHTTP[1].data.transaction_signature # Nil))
         => send.pc = "Failed"

\* C4: in one attempt prepare and submit are each sent at most once; a
\* Failed attempt has no request outstanding and takes no further step; an
\* attempt starts in Building with no transaction, no prepare response and
\* nothing sent, and the prepare request carries the transaction built in
\* this attempt.
ContinueSend ==
    \/ GetLatestBlockhashReturn
    \/ PrepareReturn
    \/ SignKMS
    \/ SubmitCall
    \/ SubmitReturn

C4_NoRetry ==
    /\ send.prepareCalls <= 1
    /\ send.signerCalls <= 1
    /\ send.submitCalls <= 1
    /\ send.pc = "Failed" => (send.request = Nil /\ ~ENABLED ContinueSend)
    /\ send.pc = "getLatestBlockhash" =>
         /\ send.trail = <<"Building">>
         /\ send.result = Nil /\ send.prepare = Nil
         /\ send.prepareHTTP = Nil /\ send.submitHTTP = Nil
         /\ send.prepareCalls = 0 /\ send.submitCalls = 0
    /\ send.pc = "prepare" =>
         /\ send.prepareCalls = 1
         /\ send.prepare = Nil /\ send.prepareHTTP = Nil
         /\ send.request = Some(PrepareBody(send.result[1], Nil,
                                            send.fromAddress[1]))

C4_Witness ==
    /\ send.pc = "Failed"
    /\ send.failedAt = Some("submit")
    /\ send.prepareCalls = 1
    /\ send.submitCalls = 1

\* C5: after a non-2xx prepare response, and after a non-2xx submit
\* response, the error shown to the caller carries the HTTP status code and
\* the response body.
C5_FailureCarriesStatusAndBody ==
    /\ (send.pc = "Failed" /\ send.failedAt = Some("prepare")
        /\ PrepareRefused) =>
         /\ send.errorMessage[1].status = Some(send.prepareHTTP[1].status)
         /\ send.errorMessage[1].body = Some(send.prepareHTTP[1].body)
    /\ (send.pc = "Failed" /\ send.failedAt = Some("submit")
        /\ SubmitRefused) =>
         /\ send.errorMessage[1].status = Some(send.submitHTTP[1].status)
         /\ send.errorMessage[1].body = Some(send.submitHTTP[1].body)

\* C6: the submit request carries the transaction of this attempt's prepare
\* response, never the locally built one, with exactly the signatures made
\* from that prepare response, and is sent at most once.
C6_SubmitSendsPreparedTx ==
    /\ send.submitCalls <= 1
    /\ send.pc = "submit" =>
         /\ send.submitCalls = 1
         /\ send.request # Nil /\ send.prepare # Nil
         /\ send.kmsSignatures # Nil /\ send.result # Nil
         /\ LET body == send.request[1]
                stubs == Payloads(send.prepare[1])
                sigs == send.kmsSignatures[1]
            IN  /\ body.transaction = send.prepare[1].transaction
                /\ body.transaction # send.result[1]
                /\ Len(body.kms_payloads) = Len(sigs)
                /\ Len(body.kms_payloads) = Len(stubs)
                /\ \A i \in 1..Len(sigs) :
                     /\ body.kms_payloads[i].provider = sigs[i].provider
                     /\ body.kms_payloads[i].signature
                          = sigs[i].signatureBase64
                     /\ body.kms_payloads[i].signature.over
                          = CanonicalBytes(stubs[i])

C6_Witness ==
    /\ send.pc = "submit"
    /\ send.request # Nil
    /\ Len(send.request[1].kms_payloads) = 2

\* C7: when the signer returns, its list has one entry per kms_payloads
\* stub, and entry i is the signature with the one key over stub i.
C7_OneSignaturePerStubInOrder ==
    send.pc = "submitCall" =>
        LET stubs == Payloads(send.prepare[1])
            sigs == send.kmsSignatures[1]
        IN  /\ Len(sigs) = Len(stubs)
            /\ \E key \in ValidScalars :
                 \A i \in 1..Len(stubs) :
                    sigs[i] = KMSPayloadSignature(
                                "privy",
                                Signature(key, CanonicalBytes(stubs[i])))

C7_Witness ==
    /\ send.pc = "submitCall"
    /\ Len(send.kmsSignatures[1]) = 2
    /\ send.kmsSignatures[1][1] # send.kmsSignatures[1][2]

\* The signer is called in this step.
SignerStep ==
    send.pc = "signKMS" /\ send'.signerCalls = send.signerCalls + 1
\* No key is cached and none can be recovered from the stored response.
NoKeyAvailable ==
    getDecryptedAuthorizationKey(
        refreshDecryptedAuthorizationKeyIfPossible(Cur)) = Nil
SignerRefuses ==
    /\ send'.pc = "Failed"
    /\ send'.failedAt = Some("sign")
    /\ send'.errorMessage = Some(MissingAuthorizationKey)
    /\ send'.kmsSignatures = Nil
    /\ send'.submitCalls = 0
    /\ send'.request = Nil

\* C8 as claimed: a signer call with no key available fails with
\* MissingAuthorizationKey, returns no signatures, and the attempt does not
\* reach submit.
C8_NoKeyNoSubmit ==
    [][(SignerStep /\ NoKeyAvailable) => SignerRefuses]_vars

\* C8 as amended: that holds when the prepare response has at least one
\* kms_payloads stub; with none the signer returns the empty list without
\* looking for a key and the attempt goes on to submit.
C8_NoKeyNoSubmitWhenStubs ==
    [][(SignerStep /\ NoKeyAvailable) =>
          IF Payloads(send.prepare[1]) # <<>>
          THEN SignerRefuses
          ELSE /\ send'.pc = "submitCall"
               /\ send'.kmsSignatures = Some(<<>>)]_vars

C8_Witness ==
    /\ send.pc = "Failed"
    /\ send.failedAt = Some("sign")
    /\ send.errorMessage = Some(MissingAuthorizationKey)
    /\ AuthKey = Nil
    /\ send.submitCalls = 0

\* A submitOTP step whose verification returned raw.
OTPVerifiedWith(raw, id) ==
    /\ UNCHANGED <<servers, session, send>>
    /\ raw \in GridRaws
    /\ Len(mainQueue) < MaxQueue
    /\ Commit(submitOTP(Cur, session,
                        HTTPResponse(TRUE, 200, TRUE, raw, ""), id))
\* A submitOTP step whose verification returned the response that is
\* stored after it.
OTPVerified ==
    /\ getGridRawResponse(Cur)' # Nil
    /\ \E raw \in {getGridRawResponse(Cur)'[1]}, id \in HpkeKeyIds :
          OTPVerifiedWith(raw, id)

UnwrapFails(st, enc) ==
    /\ enc # Nil
    /\ LET dec == decryptAuthorizationKey(st, enc[1]) IN
       ~dec.ok \/ extractRawP256PrivateKey(dec.value[1]) = Nil

\* C10: when the unwrap fails, in submitOTP or in the refresh of a signing
\* attempt, the cached key and its shadow copy are left as they were.
C10_UnwrapFailsClosed ==
    [][/\ (send' = send /\ getGridRawResponse(Cur)' # Nil) =>
            \A raw \in {getGridRawResponse(Cur)'[1]}, id \in HpkeKeyIds :
               (/\ UnwrapFails(ensureKeysPresent(Cur, id),
                               firstEncryptedKey(raw))
                /\ OTPVerifiedWith(raw, id))
               => (AuthKey' = AuthKey /\ userDefaults' = userDefaults)
       /\ (/\ SignerStep
           /\ AuthKey = Nil
           /\ getGridRawResponse(Cur) # Nil
           /\ UnwrapFails(Cur, findEncryptedAuthKey(getGridRawResponse(Cur)[1])))
            => (AuthKey' = Nil /\ userDefaults' = userDefaults)]_vars

C10_Witness ==
    /\ AuthKey # Nil
    /\ getGridRawResponse(Cur) # Nil
    /\ UnwrapFails(Cur, firstEncryptedKey(getGridRawResponse(Cur)[1]))

\* The signatures the signer can make.  A signature is named by the key it
\* verifies under and the bytes it is over; it is not that key.
Signatures ==
    {Signature(k, CanonicalBytes(stub)) : k \in ValidScalars, stub \in KMSStubs}

\* The verify request the next submitOTP sends from this state.
NextVerifyRequest(id) ==
    verifyRequestBody(publicKeyDERBase64(ensureKeysPresent(Cur, id), id),
                      "E1", "otp")

\* C11: every request body holds only public values: a prepare body the
\* unsigned transaction and the payer address, a submit body the prepared
\* transaction and signatures, a verify body the e-mail, the OTP and the
\* HPKE public key; none holds the authorization key or the HPKE private
\* scalar.
C11_NoKeyInRequests ==
    /\ send.pc = "prepare" =>
         /\ DOMAIN send.request[1]
              = {"transaction", "transaction_signers", "fee_config"}
         /\ send.request[1].transaction.kind = "unsigned"
         /\ send.request[1].transaction_signers = Nil
         /\ send.request[1].fee_config
              = [currency |-> "sol", payer_address |-> send.fromAddress[1]]
    /\ send.pc = "submit" =>
         /\ DOMAIN send.request[1] = {"transaction", "kms_payloads"}
         /\ send.request[1].transaction \in PreparedTxs
         /\ \A i \in 1..Len(send.request[1].kms_payloads) :
              /\ DOMAIN send.request[1].kms_payloads[i]
                   = {"provider", "signature"}
              /\ send.request[1].kms_payloads[i].provider = "privy"
              /\ send.request[1].kms_payloads[i].signature \in Signatures
    /\ \A id \in HpkeKeyIds :
         /\ DOMAIN NextVerifyRequest(id)
              = {"email", "otpCode", "kmsProviderConfig"}
         /\ DOMAIN NextVerifyRequest(id).kmsProviderConfig
              = {"encryptionPublicKey"}
         /\ NextVerifyRequest(id).kmsProviderConfig.encryptionPublicKey
              \in {Base64(HpkePublicDER(k)) : k \in HpkeKeyIds}

C11_Witness ==
    /\ send.pc = "submit"
    /\ Len(send.request[1].kms_payloads) > 0
    /\ AuthKey # Nil
    /\ KeychainGet(keychain, "hpke_private_raw") # Nil

\* C15: buildTransfer rejects a sender or recipient address that is not
\* valid Base58 before any network call: while the blockhash lookup is in
\* flight, both addresses of the attempt decode.
C15_AddressesCheckedBeforeNetwork ==
    send.pc = "getLatestBlockhash" =>
        /\ Base58Decodes(send.fromAddress[1])
        /\ Base58Decodes(send.toAddress[1])

\* The call of op has returned; Out is what it returned.
Done(op) == calc.op = op /\ calc.out # Nil
Out == calc.out[1]

\* Some instruction of tx names a program that is not an account key.
MissingProgram(tx) ==
    \E i \in DOMAIN tx.instructions :
        firstIndex(tx.accountKeys, tx.instructions[i].programId) = Nil

\* C12: serializeUnsigned fails whenever an instruction's program id is
\* absent from accountKeys: the call ends in an error and produces no
\* serialized message.
C12_MissingProgramFails ==
    (Done("serializeUnsigned") /\ MissingProgram(Arg)) =>
        (~Out.ok /\ Out.value = Nil)

\* The record the layout has for instruction ix of tx: program-index byte,
\* shortvec(account index count), the indices, shortvec(data length), data.
LayoutRecord(tx, ix) ==
    <<firstIndex(tx.accountKeys, ix.programId)[1]>>
    \o encodeShortVec(Len(ix.accounts)) \o ix.accounts
    \o encodeShortVec(Len(ix.data)) \o ix.data

Layout(tx) ==
    encodeShortVec(tx.numRequiredSignatures)
    \o Zeros(64 * tx.numRequiredSignatures)
    \o <<tx.numRequiredSignatures, tx.numReadonlySigned,
         tx.numReadonlyUnsigned>>
    \o encodeShortVec(Len(tx.accountKeys)) \o Concat(tx.accountKeys)
    \o tx.recentBlockhash
    \o encodeShortVec(Len(tx.instructions))
    \o Concat([i \in DOMAIN tx.instructions |->
                 LayoutRecord(tx, tx.instructions[i])])

\* C13: serializeUnsigned returns exactly the legacy layout, and the number
\* of instruction records it wrote equals the instruction count it declared.
C13_LayoutAndRecordCount ==
    Done("serializeUnsigned") =>
        /\ Len(InstructionRecords(Arg, 1)) = Len(Arg.instructions)
        /\ ~MissingProgram(Arg)
        /\ Out.value = Some(Layout(Arg))

\* The account table of tx holds no address twice.
UniqueAccounts(tx) ==
    \A i, j \in DOMAIN tx.accountKeys :
        i # j => tx.accountKeys[i] # tx.accountKeys[j]

\* Every instruction of tx names a program of the table and only account
\* indices below the table's length.
InstructionsResolve(tx) ==
    \A i \in DOMAIN tx.instructions :
        LET ix == tx.instructions[i]
        IN  /\ firstIndex(tx.accountKeys, ix.programId) # Nil
            /\ \A k \in DOMAIN ix.accounts :
                   ix.accounts[k] < Len(tx.accountKeys)

\* C14: every message buildTransfer produces, for all sender and recipient
\* inputs, has an account table of unique addresses with the fee payer at
\* index 0, and instructions whose program id and account indices are in
\* the table.
C14_BuiltMessageWellFormed ==
    (Done("buildTransfer") /\ Out.ok) =>
        LET tx == Out.value[1]
        IN  /\ UniqueAccounts(tx)
            /\ Some(tx.accountKeys[1]) = Base58_decode(Arg.fromAddress).value
            /\ InstructionsResolve(tx)

\* C16: Base58.decode(Base58.encode(b)) = b for every byte string b, the
\* empty one, the all-zero ones and [0, 0, 1] included; encode writes one
\* "1" for each leading zero byte, and encode([0, 0, 0]) is "111".
C16_Base58RoundTrip ==
    Done("Base58") =>
        /\ Out.decoded = Returned(Arg)
        /\ LeadingCount(Out.string, 0) = LeadingCount(Arg, 0)
        /\ Arg = <<0, 0, 0>> => Out.string = <<0, 0, 0>>

\* The number whose 7-bit groups, lowest first, are the low bits of bytes.
RECURSIVE Reassemble(_)
Reassemble(bytes) ==
    IF bytes = <<>> THEN 0
    ELSE (Head(bytes) % 128) + 128 * Reassemble(Tail(bytes))

\* C17: encodeShortVec(n) is the minimal 7-bit, lowest-group-first
\* encoding of n >= 0: every byte but the last has the high bit set, the
\* last has it clear, the groups reassemble to n, no group is spent on
\* leading zeros, and 0, 127, 128, 300 encode to 00, 7F, 80 01, AC 02.
C17_ShortVecMinimal ==
    Done("encodeShortVec") =>
        /\ Len(Out) >= 1
        /\ \A i \in DOMAIN Out : Out[i] \in 0..255
        /\ \A i \in 1..(Len(Out) - 1) : Out[i] >= 128
        /\ Out[Len(Out)] < 128
        /\ Reassemble(Out) = Arg
        /\ Len(Out) > 1 => Out[Len(Out)] # 0
        /\ Arg = 0 => Out = <<0>>
        /\ Arg = 127 => Out = <<127>>
        /\ Arg = 128 => Out = <<128, 1>>
        /\ Arg = 300 => Out = <<172, 2>>

C17_Witness == Done("encodeShortVec") /\ Arg = 300 /\ Out = <<172, 2>>

\* The bumps whose digest is not a point of the curve.
OffCurveBumps(sha256) == {b \in 1..FirstBump : ~sha256[b].onCurve}

\* C18: deriveAssociatedTokenAddress returns the digest and the bump of the
\* largest bump in 1..255 whose digest is off the curve, and the address it
\* returns is not a point of the curve.
C18_DerivedAddressOffCurve ==
    (Done("deriveAssociatedTokenAddress") /\ OffCurveBumps(Arg) # {}) =>
        LET pair == Out.value[1]
        IN  /\ pair.bump \in OffCurveBumps(Arg)
            /\ \A b \in OffCurveBumps(Arg) : b <= pair.bump
            /\ pair.address = Arg[pair.bump]
            /\ ~pair.address.onCurve

\* C19: when the test accepts the digest of no bump in 1..255, the
\* derivation ends in an error and hands the caller no address and bump.
C19_ExhaustionIsAnError ==
    (/\ Done("deriveAssociatedTokenAddress")
     /\ \A b \in 1..FirstBump : ~isOffCurveEd25519(Arg[b])) =>
        (~Out.ok /\ Out.value = Nil)

\* Two JSON values are structurally equal: the same kind and literal, the
\* same keys with structurally equal values whatever the iteration order,
\* the same items in the same positions.
RECURSIVE StructurallyEqual(_, _)
StructurallyEqual(x, y) ==
    /\ x.t = y.t
    /\ x.lit = y.lit
    /\ Len(x.kids) = Len(y.kids)
    /\ IF x.t = "dict"
       THEN \A i \in DOMAIN x.kids :
              \E j \in DOMAIN y.kids :
                 /\ x.kids[i].k = y.kids[j].k
                 /\ StructurallyEqual(x.kids[i].v, y.kids[j].v)
       ELSE \A i \in DOMAIN x.kids :
              StructurallyEqual(x.kids[i].v, y.kids[i].v)

TwoKeysEitherOrder ==
    {JSONDict(<<Pair(KeyB, JSONNumber(2)), Pair(KeyA, JSONNumber(1))>>),
     JSONDict(<<Pair(KeyA, JSONNumber(1)), Pair(KeyB, JSONNumber(2))>>)}

\* C20: CanonicalJSON gives the same bytes for structurally equal JSON
\* values whatever the key order at any depth, with no whitespace between
\* tokens; {"b":2,"a":1} and {"a":1,"b":2} both give {"a":1,"b":2}.
C20_CanonicalIgnoresKeyOrder ==
    Done("canonicalString") =>
        /\ \A other \in JSONValues :
              StructurallyEqual(Arg, other) => canonicalString(other) = Out
        /\ \A i \in DOMAIN Out : Out[i] \notin {9, 10, 13, 32}
        /\ Arg \in TwoKeysEitherOrder =>
              Out = <<123, 34, 97, 34, 58, 49, 44, 34, 98, 34, 58, 50, 125>>

C20_Witness ==
    /\ Done("canonicalString")
    /\ Arg = JSONDict(<<Pair(KeyB, JSONNumber(2)), Pair(KeyA, JSONNumber(1))>>)
    /\ Out = <<123, 34, 97, 34, 58, 49, 44, 34, 98, 34, 58, 50, 125>>

\* C21: no encapsulated key is fatal: x963FromSPKIDER returns a 65-byte
\* point beginning with 0x04 that lies inside the input, or throws an
\* error its caller can catch; the process never stops in it.
C21_ParserNeverTraps ==
    Done("x963FromSPKIDER") =>
        /\ Out # Trapped
        /\ Out.ok =>
             /\ Len(Out.value[1]) = 65
             /\ Out.value[1][1] = 4
             /\ \E at \in 0..Len(Arg) :
                    SubSeq(Arg, at + 1, at + 65) = Out.value[1]

\* The session as the keychain holds it.
PersistedSession == KeychainGet(keychain, "auth_session_json")

\* C22: session storage is merge-only, also for setters called back to
\* back: while the verify response of the last OTP is stored, the persisted
\* session has the address and the Grid user id that response gave to
\* setAddress and setGridUserId.
C22_PersistedSessionKeepsLatest ==
    LET stored == getGridRawResponse(Cur)
    IN  stored # Nil =>
          /\ PersistedSession # Nil
          /\ PersistedSession[1].address = Some(stored[1].address)
          /\ PersistedSession[1].gridUserId = stored[1].gridUserId

\* The account an authorization key was wrapped for.
KeyOwner(key) == IF key = "k3" THEN "A2" ELSE "A1"

\* C23: signing attempts for different accounts share no state: the
\* signatures made for an attempt of one account are made with that
\* account's authorization key, whatever was verified, stored or cleared
\* for another account in between.
C23_SignedWithOwnKey ==
    (send.kmsSignatures # Nil /\ send.fromAddress # Nil) =>
        \A i \in DOMAIN send.kmsSignatures[1] :
            KeyOwner(send.kmsSignatures[1][i].signatureBase64.key)
                = send.fromAddress[1]

HpkePrivateStored == KeychainGet(keychain, "hpke_private_raw")
HpkePublicStored == KeychainGet(keychain, "hpke_public_der")

\* C24: the device HPKE keypair is generated once: once both halves are
\* stored, no call of ensureKeysPresent, publicKeyDERBase64,
\* decryptAuthorizationKey, submitOTP or clear replaces or removes them,
\* and a stored public key is always the public half of the stored private
\* key.
C24_KeypairGeneratedOnce ==
    [][/\ (HpkePrivateStored # Nil /\ HpkePublicStored # Nil) =>
              (/\ HpkePrivateStored' = HpkePrivateStored
               /\ HpkePublicStored' = HpkePublicStored)
       /\ HpkePublicStored' # Nil =>
              (/\ HpkePrivateStored' # Nil
               /\ HpkePublicStored'[1].id = HpkePrivateStored'[1].id)]_vars

\* The second keypair drawn is stored, a key sealed to another keypair has
\* been refused, and clear has just run.
C24_Witness ==
    /\ HpkePrivateStored = Some(HpkePrivate(2))
    /\ HpkePublicStored = Some(HpkePublicDER(2))
    /\ calc.op = "decryptAuthorizationKey"
    /\ calc.out = Some(Thrown(HPKEOpenError))
    /\ mainQueue = <<Nil>>

\* ------------------------------------------------- backend_mini, requests
\* E-mails of the requests: s, S, long s and a single space for children;
\* p and q for parents.
ChildEmails == {<<115>>, <<83>>, <<383>>, <<32>>}
ParentEmails == {<<112>>, <<113>>}

\* The ids util.GenerateShortID can draw, per table.
ParentIDs == {"p1", "p2"}
ChildIDs == {"c1", "c2"}

\* The outcomes of the ten draws: an id no row has yet, or, when some id
\* is taken, ten collisions.
DrawnIDs(ids, taken) ==
    {Some(i) : i \in ids \ taken} \cup (IF taken # {} THEN {Nil} ELSE {})

\* Ids are drawn on the creating path only: the e-mail has no row yet.
ParentDraws(db, req) ==
    IF GetParentByEmail(db, req.email) # {} THEN {Nil}
    ELSE DrawnIDs(ParentIDs, {p.id : p \in db.parents})

ChildDraws(db, req) ==
    IF GetChildByEmail(db, req.email) # {} THEN {Nil}
    ELSE DrawnIDs(ChildIDs, {c.id : c \in db.children})

\* Method and Authorization header of a request: the documented call,
\* and calls with another method, without the header, with another token,
\* another scheme spelling or a trailing space.
Authorized == [method |-> "POST", authorization |-> "Bearer SonaBetaTestAPi"]
Envelopes ==
    {Authorized}
    \cup [method : {"GET", "OPTIONS"},
          authorization : {"", "Bearer SonaBetaTestAPi"}]
    \cup [method : {"POST"},
          authorization : {"", "Bearer sonabetatestapi",
                           "bearer SonaBetaTestAPi",
                           "Bearer SonaBetaTestAPi ", "SonaBetaTestAPi"}]

\* Every body of the samples under the documented call, one body under
\* each other envelope.
ParentRequests ==
    [method : {"POST"}, authorization : {Authorized.authorization},
     email : ParentEmails, name : {Nil, Some("Pat")},
     wallet : {Nil, Some("W0")}, upd : BOOLEAN]
    \cup {[method |-> e.method, authorization |-> e.authorization,
           email |-> <<113>>, name |-> Some("Pat"), wallet |-> Nil,
           upd |-> FALSE] : e \in Envelopes}

ChildRequests ==
    [method : {"POST"}, authorization : {Authorized.authorization},
     email : ChildEmails, name : {Nil, Some("Kim")},
     parent_id : {Nil, Some("")} \cup {Some(i) : i \in ParentIDs \cup {"p9"}},
     wallet : {Nil, Some("W1")}, upd : BOOLEAN]
    \cup {[method |-> e.method, authorization |-> e.authorization,
           email |-> <<115>>, name |-> Some("Kim"), parent_id |-> Some("p1"),
           wallet |-> Nil, upd |-> FALSE] : e \in Envelopes}

\* The route a request went to, its method and header, and what was
\* answered.
Answered(route, req, reply) ==
    [op |-> route,
     in |-> Some([method |-> req.method, authorization |-> req.authorization]),
     out |-> Some([status |-> reply.status, error |-> reply.error,
                   served |-> reply.served])]

AppIdle == UNCHANGED <<keychain, userDefaults, session, mainQueue, send>>

GetParent ==
    \E req \in ParentRequests :
    \E id \in ParentDraws(miniDB, req) :
        LET reply == RequireBearer(Token, req, miniDB,
                                   GetParentHandler(miniDB, req, id))
        IN  /\ miniDB' = reply.db
            /\ calc' = Answered("/get_parent", req, reply)
            /\ AppIdle
            /\ UNCHANGED backendDB

GetChild ==
    \E req \in ChildRequests :
    \E id \in ChildDraws(miniDB, req) :
        LET reply == RequireBearer(Token, req, miniDB,
                                   GetChildHandler(miniDB, req, id))
        IN  /\ miniDB' = reply.db
            /\ calc' = Answered("/get_child", req, reply)
            /\ AppIdle
            /\ UNCHANGED backendDB

NextMini == GetParent \/ GetChild

SpecMini == Init /\ [][NextMini]_vars

\* The children of a parent, and the places of a child in a kids_list.
KidsOf(p) == {c \in miniDB.children : c.parent_id = p.id}
EntriesOf(p, c) ==
    {i \in 1..Len(p.kids_list) : p.kids_list[i].email = c.email}

\* C25: after any sequence of /get_parent and /get_child requests, every
\* parent's kids_list holds exactly one entry for each child whose
\* parent_id is that parent, and no entry for any other child.
C25_KidsListInSync ==
    \A p \in miniDB.parents :
        /\ \A c \in KidsOf(p) : Cardinality(EntriesOf(p, c)) = 1
        /\ \A i \in 1..Len(p.kids_list) :
               \E c \in KidsOf(p) : c.email = p.kids_list[i].email

\* The request just answered by backend_mini lacked the exact header.
Unauthorized == Arg.authorization # "Bearer SonaBetaTestAPi"

\* C27: a request to a backend_mini route, whatever its method, whose
\* Authorization header is not exactly "Bearer <token>" is answered
\* 401 {"error":"unauthorized"} and the route's handler does not run.
C27_BearerRequiredOnAllRequests ==
    (calc.op \in {"/get_parent", "/get_child"} /\ Unauthorized) =>
        /\ Out.status = 401
        /\ Out.error = "unauthorized"
        /\ ~Out.served

\* ------------------------------------------------------ backend, requests
\* Integer literals of the query strings: the ids of the rows that can
\* exist and of one that cannot, amounts from below zero to past int64.
\* Nil is a parameter that is absent or not a number.
IDLiterals == {Nil, Some(1), Some(2), Some(3)}
AmountLiterals == {Nil} \cup {Some(n) : n \in -1..(MaxInt64 + 1)}
BackendEmails == {"alice@example.com", "bob@example.com"}

\* Every request of the samples with the route's method, one with the
\* other method.
RegisterParentRequests ==
    [method : {"POST"}, name : {Nil, Some("Alice")},
     email : {Some(e) : e \in BackendEmails}]
    \cup {[method |-> "GET", name |-> Some("Alice"),
           email |-> Some("alice@example.com")]}

RegisterKidRequests ==
    [method : {"POST"}, name : {Nil, Some("Bob")}, parent_id : IDLiterals]
    \cup {[method |-> "GET", name |-> Some("Bob"), parent_id |-> Some(1)]}

TopUpRequests ==
    [method : {"POST"}, parent_id : IDLiterals, amount : AmountLiterals]
    \cup {[method |-> "GET", parent_id |-> Some(1), amount |-> Some(1)]}

SendRequests ==
    [method : {"POST"}, parent_id : IDLiterals, kid_id : IDLiterals,
     amount : AmountLiterals]
    \cup {[method |-> "GET", parent_id |-> Some(1), kid_id |-> Some(1),
           amount |-> Some(1)]}

\* The server's step for a request: the database is what the handler
\* left.
Serve(reply) ==
    /\ backendDB' = reply.db
    /\ AppIdle
    /\ UNCHANGED <<calc, miniDB>>

RegisterParent ==
    \E req \in RegisterParentRequests :
        Serve(Server_RegisterParent(backendDB, req))

RegisterKid ==
    \E req \in RegisterKidRequests : Serve(Server_RegisterKid(backendDB, req))

ParentTopUp ==
    \E req \in TopUpRequests : Serve(Server_ParentTopUp(backendDB, req))

SendKidMoney ==
    \E req \in SendRequests : Serve(Server_SendKidMoney(backendDB, req))

NextLedger == RegisterParent \/ RegisterKid \/ ParentTopUp \/ SendKidMoney

SpecLedger == Init /\ [][NextLedger]_vars

\* The sum of the balances of a set of rows, and of both tables.
RECURSIVE SumBalances(_)
SumBalances(rows) ==
    IF rows = {} THEN 0
    ELSE LET r == CHOOSE r \in rows : TRUE
         IN  r.balance.value + SumBalances(rows \ {r})

Total(db) == SumBalances(db.parents) + SumBalances(db.kids)

\* What a request adds to the sum of the balances.
Gain(reply) == Total(reply.db) - Total(backendDB)

\* C29: whatever requests came before, a /parent_topup request adds its
\* amount to the sum of all balances or, when it is not applied, nothing,
\* and a /send_kid_money request leaves the sum as it was; a transfer
\* that succeeds takes exactly amount from the parent and gives exactly
\* amount to the kid.  So the sum always equals the top-ups applied.
C29_FundsConserved ==
    /\ \A req \in TopUpRequests :
          LET reply == Server_ParentTopUp(backendDB, req)
          IN  /\ Gain(reply) = 0
                    \/ (req.amount # Nil /\ Gain(reply) = req.amount[1])
              /\ reply.status = 200 => Gain(reply) = req.amount[1]
    /\ \A req \in SendRequests :
          LET reply == Server_SendKidMoney(backendDB, req)
          IN  /\ Gain(reply) = 0
              /\ reply.status = 200 =>
                    SumBalances(reply.db.kids) =
                        SumBalances(backendDB.kids) + req.amount[1]

\* The three kinds of /send_kid_money request that must be turned down.
NotPositive(req) == req.amount # Nil /\ req.amount[1] <= 0

ExceedsBalance(req) ==
    /\ req.amount # Nil
    /\ req.parent_id # Nil
    /\ \E p \in backendDB.parents :
          p.id = req.parent_id[1] /\ p.balance.value < req.amount[1]

NotOwnKid(req) ==
    /\ req.parent_id # Nil
    /\ req.kid_id # Nil
    /\ ~\E k \in backendDB.kids :
          k.id = req.kid_id[1] /\ k.parent_id = req.parent_id[1]

\* C30: no balance is ever negative, and in every state the server can be
\* in, a /send_kid_money request whose amount exceeds the parent's
\* balance, whose kid is not the parent's, or whose amount is not
\* positive is answered with an error and changes nothing.
C30_RejectedAndNeverNegative ==
    /\ \A r \in backendDB.parents \cup backendDB.kids : r.balance.value >= 0
    /\ \A req \in SendRequests :
          (NotPositive(req) \/ ExceedsBalance(req) \/ NotOwnKid(req)) =>
              LET reply == Server_SendKidMoney(backendDB, req)
              IN  /\ reply.status # 200
                  /\ reply.error # ""
                  /\ reply.db = backendDB

\* Two parents with money, one of them with a kid that has been sent
\* money: requests of all three kinds can be made, and are turned down.
C30_Witness ==
    \E p \in backendDB.parents, q \in backendDB.parents, k \in backendDB.kids :
        /\ p.id # q.id
        /\ k.parent_id = p.id
        /\ k.balance.value >= 1
        /\ p.balance.value >= 1
        /\ q.balance.value > p.balance.value
        /\ \E req \in SendRequests :
              /\ req.method = "POST"
              /\ req.parent_id = Some(p.id)
              /\ req.kid_id = Some(k.id)
              /\ ExceedsBalance(req)
              /\ ~NotPositive(req)
              /\ parseInt64Query(req.amount) # Nil
              /\ Server_SendKidMoney(backendDB, req).error =
                    "insufficient funds or parent not found"

\* --------------------------------------------- backend, registration
\* Grid's answers to the create-account call followed by the
\* auth-initiate call (Nil: the call failed or was not made), and to the
\* verify call.
GridSignupAnswers ==
    {<<Nil, Nil>>,
     <<Some([status |-> 201, exists |-> FALSE]), Nil>>,
     <<Some([status |-> 400, exists |-> FALSE]), Nil>>,
     <<Some([status |-> 409, exists |-> TRUE]), Nil>>,
     <<Some([status |-> 400, exists |-> TRUE]), Some([status |-> 200])>>}

GridVerifyAnswers ==
    {Nil,
     Some([status |-> 200,
           data |-> Some([grid_user_id |-> "G1", address |-> "W1"])]),
     Some([status |-> 400, data |-> Nil])}

GetUserRequests ==
    [method : {"GET"}, user_type : {Some("parent")},
     name : {Nil, Some("Alice")},
     email : {Nil} \cup {Some(e) : e \in BackendEmails}, parent_id : {Nil}]
    \cup [method : {"GET"}, user_type : {Some("kid")},
          name : {Nil, Some("Bob"), Some("Amy")},
          email : {Nil} \cup {Some(e) : e \in BackendEmails},
          parent_id : IDLiterals]
    \cup [method : {"GET", "POST"}, user_type : {Nil, Some("child"), Some("admin")},
          name : {Some("Bob")}, email : {Some("bob@example.com")},
          parent_id : {Some(1)}]

GetChildRequests ==
    [method : {"GET"}, name : {Nil, Some("Bob"), Some("Amy")},
     parent_id : IDLiterals]
    \cup {[method |-> "POST", name |-> Some("Bob"), parent_id |-> Some(1)]}

VerifyBodies ==
    {Nil} \cup {Some(b) : b \in [email : BackendEmails \cup {"", "eve@example.com"},
                                 otp_code : {"", "123456"}]}

VerifyRequests ==
    [method : {"POST"}, body : VerifyBodies]
    \cup {[method |-> "GET",
           body |-> Some([email |-> "alice@example.com",
                          otp_code |-> "123456"])]}

GetUser ==
    \E req \in GetUserRequests, grid \in GridSignupAnswers :
        Serve(Server_GetUser(backendDB, req, grid[1], grid[2]))

BackendGetChild ==
    \E req \in GetChildRequests : Serve(Server_GetChild(backendDB, req))

VerifyGridOTP ==
    \E req \in VerifyRequests, grid \in GridVerifyAnswers :
        Serve(Server_VerifyGridOTP(backendDB, req, grid))

NextRegistration == GetUser \/ BackendGetChild \/ VerifyGridOTP

SpecRegistration == Init /\ [][NextRegistration]_vars

\* The /grid/otp_verify request of a user, and Grid's answer with ids.
VerifyOf(email) ==
    [method |-> "POST",
     body |-> Some([email |-> email, otp_code |-> "123456"])]
GridVerified ==
    Some([status |-> 200,
          data |-> Some([grid_user_id |-> "G1", address |-> "W1"])])

\* The user's row in the database a reply leaves carries Grid's ids.
Linked(db, u) ==
    \E r \in db.parents \cup db.kids :
        /\ r.email = u.email
        /\ r.name = u.name
        /\ r.hpke_pub_der = u.hpke_pub_der
        /\ r.grid_user_id = Some("G1")
        /\ r.grid_wallet_id = Some("W1")

\* C26: for every user, parent or kid, that /get_user has recorded with
\* an e-mail, a /grid/otp_verify request with that e-mail is forwarded to
\* Grid with that user's stored HPKE public key, and the ids Grid returns
\* are stored on that user's row.
C26_VerifyServesParentsAndKids ==
    \A u \in backendDB.parents \cup backendDB.kids :
        (u.email # Nil /\ u.email # Some("")) =>
            LET reply == Server_VerifyGridOTP(backendDB, VerifyOf(u.email[1]),
                                              GridVerified)
            IN  /\ reply.forwarded # Nil
                /\ u.hpke_pub_der # Nil
                /\ reply.forwarded[1].encryption_public_key =
                      Base64(u.hpke_pub_der[1])
                /\ Linked(reply.db, u)

\* C28: in every state the server can be in, whatever kids exist, a
\* GET /get_child with a name and the id of an existing parent answers
\* 200 with a kid of that name under that parent, which is in the
\* database afterwards and was not before; without parent_id it creates
\* nothing and answers 200 with a kid of that name or with null.
C28_GetChildCreatesOrLooksUp ==
    \A req \in GetChildRequests :
        (req.method = "GET" /\ req.name # Nil) =>
            LET reply == Server_GetChild(backendDB, req)
            IN  IF req.parent_id = Nil
                THEN /\ reply.db = backendDB
                     /\ reply.status = 200
                     /\ reply.row # Nil => reply.row[1].name = req.name[1]
                ELSE (\E p \in backendDB.parents : p.id = req.parent_id[1]) =>
                        /\ reply.status = 200
                        /\ reply.row # Nil
                        /\ reply.row[1].name = req.name[1]
                        /\ reply.row[1].parent_id = req.parent_id[1]
                        /\ reply.row[1] \in reply.db.kids
                        /\ reply.row[1] \notin backendDB.kids

====
